---- MODULE Spec2Model ----
(***************************************************************************)
(* NetVision: the metrics collection and aggregation core.                 *)
(*   PerformanceMonitor      src/src/performance_monitor.py                *)
(*   NetworkMetricsManager   src/src/network_metrics_manager.py            *)
(*   TrafficAnalyzer         src/src/traffic_analyzer.py (bandwidth only)  *)
(* Floats are modelled as naturals (milliseconds, percent) and, where a    *)
(* division is taken, as reduced fractions <<numerator, denominator>>.     *)
(***************************************************************************)
EXTENDS Integers, Sequences, FiniteSets, TLC

(***************************************************************************)
(* Bounds of the model                                                     *)
(***************************************************************************)
\* records made for one (kind, target) in the ring specification
RingRecords == 101
\* failed connection probes counted for one target
MaxRetries == 3
\* calls of the measure_* methods made by the client of the sweep
\* specification
SweepCalls == 2
\* rows of the analyzer's table, loaded at its construction
MaxPackets == 2
\* dict objects get_bandwidth_metrics creates
MaxObjects == 2
\* latency samples recorded, over all targets, in the summary specification
MaxSamples == 3
\* calls that add a target, in the add specification
MaxAdds == 2
\* connections the capture hands to the history, in the details specification
MaxConnections == 14
\* calls of add_monitoring_target, over both threads, in the registry
\* specification
MaxRegistryCalls == 4
\* monitor threads ever created
MaxWorkers == 2
\* iterations of _monitor_loop begun, over all monitor threads
MaxSweeps == 2

\* the lines of a ping output that is parsed
MaxReplies == 3
\* samples recorded for one series in the history specification
HistorySamples == 12
\* seconds the clock of the cadence specification runs
MaxClock == 66
SectionSamples == 51
MaxBundleStores == 3

(***************************************************************************)
(* Python values                                                           *)
(***************************************************************************)
\* Python's None where a float is expected
None == -1

\* the [-10:] slice of the timestamped list a summary returns
HistoryWindow == 10

\* self.df.tail(1000) of get_bandwidth_metrics
TailRows == 1000

\* get_bandwidth_metrics(interval=5) of _update_bandwidth_metrics
BandwidthInterval == 5

\* get_connection_stats(limit=50) of _update_traffic_metrics
ConnectionLimit == 50
\* PerformanceMonitor(interval=60): seconds between ticks
Interval == 60
\* device_connections[:10]
DetailLimit == 10

\* deque(maxlen=...) of the five series
LatencyMaxlen == 100
PacketLossMaxlen == 50
DnsResolutionMaxlen == 50
JitterMaxlen == 50
ConnectionTimesMaxlen == 50

(***************************************************************************)
(* Targets.  A target is a string; HostChars gives its characters, which   *)
(* is what socket.inet_aton reads.                                         *)
(***************************************************************************)
DefaultDestinations ==
    << "8.8.8.8", "1.1.1.1", "www.google.com", "www.amazon.com",
       "www.microsoft.com", "www.cloudflare.com", "www.github.com" >>

\* targets a caller adds: a hostname, two IPv4 literals, an IPv6 literal
ExtraHosts == { "example.com", "10.0.0.5", "::1" }

SeqRange(s) == { s[i] : i \in 1..Len(s) }

\* the last n elements of a sequence: s[-n:]
LastNMutFirst(s, n) == IF Len(s) <= n THEN s ELSE SubSeq(s, 1, n)
LastN(s, n) == IF Len(s) <= n THEN s ELSE SubSeq(s, Len(s) - n + 1, Len(s))

Hosts == SeqRange(DefaultDestinations) \cup ExtraHosts

HostChars(h) ==
    CASE h = "8.8.8.8" -> <<"8", ".", "8", ".", "8", ".", "8">>
      [] h = "1.1.1.1" -> <<"1", ".", "1", ".", "1", ".", "1">>
      [] h = "www.google.com" -> <<"w", "w", "w", ".", "g", "o", "o", "g", "l", "e", ".", "c", "o", "m">>
      [] h = "www.amazon.com" -> <<"w", "w", "w", ".", "a", "m", "a", "z", "o", "n", ".", "c", "o", "m">>
      [] h = "www.microsoft.com" -> <<"w", "w", "w", ".", "m", "i", "c", "r", "o", "s", "o", "f", "t", ".", "c", "o", "m">>
      [] h = "www.cloudflare.com" -> <<"w", "w", "w", ".", "c", "l", "o", "u", "d", "f", "l", "a", "r", "e", ".", "c", "o", "m">>
      [] h = "www.github.com" -> <<"w", "w", "w", ".", "g", "i", "t", "h", "u", "b", ".", "c", "o", "m">>
      [] h = "example.com" -> <<"e", "x", "a", "m", "p", "l", "e", ".", "c", "o", "m">>
      [] h = "10.0.0.5" -> <<"1", "0", ".", "0", ".", "0", ".", "5">>
      [] h = "::1" -> <<":", ":", "1">>

DigitChars == {"0", "1", "2", "3", "4", "5", "6", "7", "8", "9"}

DigitValue(c) ==
    CASE c = "0" -> 0 [] c = "1" -> 1 [] c = "2" -> 2 [] c = "3" -> 3
      [] c = "4" -> 4 [] c = "5" -> 5 [] c = "6" -> 6 [] c = "7" -> 7
      [] c = "8" -> 8 [] c = "9" -> 9

\* the parts of a character sequence between its dots
RECURSIVE SplitDots(_, _, _)
SplitDots(chars, i, cur) ==
    IF i > Len(chars) THEN << cur >>
    ELSE IF chars[i] = "." THEN << cur >> \o SplitDots(chars, i + 1, << >>)
    ELSE SplitDots(chars, i + 1, Append(cur, chars[i]))

\* a part of an address read in the given base
RECURSIVE PartValue(_, _, _)
PartValue(part, base, acc) ==
    IF part = << >> THEN acc
    ELSE PartValue(Tail(part), base, acc * base + DigitValue(Head(part)))

\* a part is a number: decimal, or octal when it has a leading zero
\* (a 0x prefix is hexadecimal in inet_aton; no target here has one)
PartIsNumber(part) ==
    /\ part # << >>
    /\ \A i \in 1..Len(part) : part[i] \in DigitChars
    /\ (Len(part) > 1 /\ part[1] = "0") =>
           \A i \in 1..Len(part) : DigitValue(part[i]) < 8

PartNumber(part) ==
    IF Len(part) > 1 /\ part[1] = "0" THEN PartValue(part, 8, 0)
    ELSE PartValue(part, 10, 0)

RECURSIVE Pow256(_)
Pow256(n) == IF n = 0 THEN 1 ELSE 256 * Pow256(n - 1)

\* socket.inet_aton(host) succeeds: one to four numeric parts, the leading
\* ones a byte each, the last one filling the bytes that are left
InetAton(chars) ==
    LET parts == SplitDots(chars, 1, << >>)
        n == Len(parts)
    IN  /\ n \in 1..4
        /\ \A i \in 1..n : PartIsNumber(parts[i])
        /\ \A i \in 1..(n - 1) : PartNumber(parts[i]) <= 255
        /\ PartNumber(parts[n]) < Pow256(5 - n)

\* PerformanceMonitor._is_ip_address
IsIPAddress(host) == InetAton(HostChars(host))

(***************************************************************************)
(* The metric store                                                        *)
(***************************************************************************)
\* the five deque attributes of PerformanceMonitor
Kinds == {"latency", "packet_loss", "dns_resolution", "jitter", "connection_times"}

\* the capacity of the deque of a kind
\* (faulty variant: every deque has the capacity of the latency deque)
MaxlenMutAllLatency(kind) == LatencyMaxlen
Maxlen(kind) ==
    CASE kind = "latency" -> LatencyMaxlen
      [] kind = "packet_loss" -> PacketLossMaxlen
      [] kind = "dns_resolution" -> DnsResolutionMaxlen
      [] kind = "jitter" -> JitterMaxlen
      [] kind = "connection_times" -> ConnectionTimesMaxlen

\* the key of historical_metrics the samples of a deque go to
HistKey(kind) == IF kind = "connection_times" THEN "connection_time" ELSE kind

HistKeys == { HistKey(k) : k \in Kinds }

VARIABLES
    pm,        \* the PerformanceMonitor object
    recorded,  \* history: per kind and target, every value a probe delivered
    focus,     \* ring specification: the measurement and target exercised
    workers,   \* the threads start_monitoring created: where each one is
               \* in _monitor_loop
    callers,   \* the threads calling start_monitoring: where each one is
    sched,     \* history of the scheduler: stops called, workers created,
               \* sweeps begun
    last,      \* the last call a client made: its name, its arguments, the
               \* results of its probes and what it returned
    mgr,       \* the NetworkMetricsManager object: aggregated_metrics,
               \* last_update and the holder of its lock
    collab,    \* the collaborators: the scanner's and the analyzer's
               \* running flags and the analyzer's packet table df
    heap,      \* the dict objects get_bandwidth_metrics created, by identity
    aggs,      \* the threads running _aggregation_loop: where each one is
    readers,   \* what each consumer thread got from get_metrics("bandwidth")
    published  \* history: the bandwidth values computed for publication

pmVars == << pm, recorded, focus, workers, callers, sched, last >>

mgrVars == << mgr, collab, heap, aggs, readers, published >>

vars == << pmVars, mgrVars >>

\* A Python dict is a function whose domain is its set of keys.
EmptyDict == << >>

\* d.get(k, default); for a defaultdict, d[k] of a key it already has
DictGet(d, k, default) == IF k \in DOMAIN d THEN d[k] ELSE default

\* d[k] = v
DictSet(d, k, v) == [x \in DOMAIN d \cup {k} |-> IF x = k THEN v ELSE d[x]]

\* PerformanceMonitor.__init__: the defaultdicts are empty (the outer
\* historical_metrics dict is shown with its five keys, each an empty dict)
PMInit ==
    [ monitoring |-> FALSE,
      latency |-> EmptyDict,
      packet_loss |-> EmptyDict,
      dns_resolution |-> EmptyDict,
      jitter |-> EmptyDict,
      connection_times |-> EmptyDict,
      historical_metrics |-> [k \in HistKeys |-> EmptyDict],
      connection_retries |-> EmptyDict,
      common_destinations |-> DefaultDestinations,
      lock |-> "free" ]

\* the deque of a kind for a host, empty when the host is no key
Ring(p, kind, host) == DictGet(p[kind], host, << >>)

\* the list of timestamped samples of a kind for a host
Hist(p, kind, host) == DictGet(p.historical_metrics[HistKey(kind)], host, << >>)

\* self.connection_retries.get(host, 0)
Retries(p, host) == DictGet(p.connection_retries, host, 0)

\* deque(maxlen=n).append(x): a full deque drops its oldest element
DequeAppendMutNoEvict(d, x, maxlen) == Append(d, x)

DequeAppendMutDropNewest(d, x, maxlen) ==
    IF Len(d) < maxlen THEN Append(d, x) ELSE d

DequeAppend(d, x, maxlen) ==
    IF Len(d) < maxlen THEN Append(d, x) ELSE Append(Tail(d), x)

\* self.<kind>[host].append(v) and
\* self.historical_metrics[key][host].append({'timestamp': now(), 'value': v});
\* the timestamp, a reading of the wall clock, is left out of the sample
StoreSample(p, kind, host, v) ==
    [ p EXCEPT ![kind] = DictSet(@, host,
                   DequeAppend(Ring(p, kind, host), v, Maxlen(kind))),
               !.historical_metrics[HistKey(kind)] = DictSet(@, host,
                   Append(Hist(p, kind, host), [value |-> v])) ]

StoreIfData(p, kind, host, v) ==
    IF v # None THEN StoreSample(p, kind, host, v) ELSE p

(***************************************************************************)
(* Probes.  A probe result is what the external call produced; "fault" is  *)
(* an exception raised at the call site of the probe (fault injection),    *)
(* which the except clause of the measuring loop handles.                  *)
(***************************************************************************)
\* _ping_host: the pair (avg_latency, packet_loss) for a subprocess result.
\*   "ok"       ping exited 0; res.avg and res.loss are what the regular
\*              expressions matched (None: no match)
\*   "nonzero"  subprocess.CalledProcessError: unreachable, 100% loss
\*   "timeout"  any other exception (TimeoutExpired, ...): (None, None)
\* (faulty variant: a non-zero exit is handled like any other exception)
PingHostMutNoLoss(res) ==
    CASE res.status = "ok" -> << res.avg, res.loss >>
      [] OTHER -> << None, None >>

PingHost(res) ==
    CASE res.status = "ok" -> << res.avg, res.loss >>
      [] res.status = "nonzero" -> << None, 100 >>
      [] OTHER -> << None, None >>

\* the body of the for loop of measure_latency for one host
MeasureLatencyHost(p, host, res) ==
    IF res.status = "fault" THEN p
    ELSE LET r == PingHost(res)
         IN  StoreIfData(StoreIfData(p, "latency", host, r[1]),
                         "packet_loss", host, r[2])

\* the body of the for loop of measure_dns_resolution for one domain;
\* res.value is what _measure_dns_resolution_time returned
MeasureDnsHost(p, domain, res) ==
    IF res.status = "fault" THEN p
    ELSE StoreIfData(p, "dns_resolution", domain, res.value)

\* the body of the for loop of measure_jitter for one host;
\* res.value is what _measure_jitter returned
MeasureJitterHost(p, host, res) ==
    IF res.status = "fault" THEN p
    ELSE StoreIfData(p, "jitter", host, res.value)

\* _measure_connection_time: a failed connect counts a retry, returns None
MeasureConnectionTime(p, host, res) ==
    IF res.status = "ok" THEN p
    ELSE [ p EXCEPT !.connection_retries =
                        DictSet(@, host, Retries(p, host) + 1) ]

\* the body of the for loop of measure_connection_times for one host
MeasureConnectionHost(p, host, res) ==
    IF res.status = "fault" THEN p
    ELSE StoreIfData(MeasureConnectionTime(p, host, res),
                     "connection_times", host,
                     IF res.status = "ok" THEN res.value ELSE None)

\* measure_latency(hosts): hosts or self.common_destinations, one after
\* the other; results[i] is the result of the probe of the i-th host
\* (faulty variant: the try statement around the whole loop)
RECURSIVE LatencyLoopMutAbort(_, _, _, _)
LatencyLoopMutAbort(p, hosts, results, i) ==
    IF i > Len(hosts) \/ results[i].status = "fault" THEN p
    ELSE LatencyLoopMutAbort(MeasureLatencyHost(p, hosts[i], results[i]),
                             hosts, results, i + 1)

RECURSIVE LatencyLoop(_, _, _, _)
LatencyLoop(p, hosts, results, i) ==
    IF i > Len(hosts) THEN p
    ELSE LatencyLoop(MeasureLatencyHost(p, hosts[i], results[i]),
                     hosts, results, i + 1)

MeasureLatency(p, hosts, results) ==
    LatencyLoop(p, IF hosts = << >> THEN p.common_destinations ELSE hosts,
                results, 1)

\* the hosts of common_destinations that are no IP address
RECURSIVE NonIPHosts(_)
NonIPHosts(hosts) ==
    IF hosts = << >> THEN << >>
    ELSE IF IsIPAddress(Head(hosts)) THEN NonIPHosts(Tail(hosts))
    ELSE << Head(hosts) >> \o NonIPHosts(Tail(hosts))

RECURSIVE DnsLoop(_, _, _, _)
DnsLoop(p, domains, results, i) ==
    IF i > Len(domains) THEN p
    ELSE DnsLoop(MeasureDnsHost(p, domains[i], results[i]),
                 domains, results, i + 1)

\* measure_dns_resolution(domains)
MeasureDnsResolution(p, domains, results) ==
    DnsLoop(p, IF domains = << >> THEN NonIPHosts(p.common_destinations)
               ELSE domains,
            results, 1)

RECURSIVE JitterLoop(_, _, _, _)
JitterLoop(p, hosts, results, i) ==
    IF i > Len(hosts) THEN p
    ELSE JitterLoop(MeasureJitterHost(p, hosts[i], results[i]),
                    hosts, results, i + 1)

\* measure_jitter(hosts)
MeasureJitter(p, hosts, results) ==
    JitterLoop(p, IF hosts = << >> THEN p.common_destinations ELSE hosts,
               results, 1)

RECURSIVE ConnectionLoop(_, _, _, _)
ConnectionLoop(p, hosts, results, i) ==
    IF i > Len(hosts) THEN p
    ELSE ConnectionLoop(MeasureConnectionHost(p, hosts[i], results[i]),
                        hosts, results, i + 1)

\* measure_connection_times(hosts)
MeasureConnectionTimes(p, hosts, results) ==
    ConnectionLoop(p, IF hosts = << >> THEN NonIPHosts(p.common_destinations)
                      ELSE hosts,
                   results, 1)

\* the history variable: the values delivered for a kind and host, and
\* what it gains from a ping result and from a probe result
Delivered(rec, kind, host) == DictGet(rec[kind], host, << >>)

Recorded(rec, kind, host, v) ==
    [rec EXCEPT ![kind] = DictSet(@, host, Append(Delivered(rec, kind, host), v))]

PingRecorded(rec, host, res) ==
    LET r == IF res.status = "fault" THEN << None, None >> ELSE PingHost(res)
        r1 == IF r[1] = None THEN rec ELSE Recorded(rec, "latency", host, r[1])
    IN  IF r[2] = None THEN r1 ELSE Recorded(r1, "packet_loss", host, r[2])

ProbeRecorded(rec, kind, host, res) ==
    IF res.status = "ok" /\ res.value # None
    THEN Recorded(rec, kind, host, res.value)
    ELSE IF kind = "connection_times" /\ res.status = "nodata"
    THEN Recorded(rec, "connect_failed", host, res.status)
    ELSE rec

\* the connection probes of a host that failed
ConnectFailures(rec, host) == Len(Delivered(rec, "connect_failed", host))

RecordedInit == [k \in Kinds \cup {"connect_failed"} |-> EmptyDict]

(***************************************************************************)
(* Summaries: the get_*_metrics methods.  A quotient is a reduced fraction *)
(* << numerator, denominator >>.                                           *)
(***************************************************************************)
RECURSIVE SeqSum(_)
SeqSum(values) ==
    IF values = << >> THEN 0 ELSE Head(values) + SeqSum(Tail(values))

\* min(values), max(values)
SeqMin(values) ==
    CHOOSE x \in SeqRange(values) : \A y \in SeqRange(values) : x <= y

SeqMax(values) ==
    CHOOSE x \in SeqRange(values) : \A y \in SeqRange(values) : x >= y

RECURSIVE GCD(_, _)
GCD(a, b) == IF b = 0 THEN a ELSE GCD(b, a % b)

Frac(n, d) == << n \div GCD(n, d), d \div GCD(n, d) >>

\* statistics.mean(values)
Mean(values) == Frac(SeqSum(values), Len(values))

\* statistics.median(values): the middle of the sorted data, the mean of
\* the two middle elements when their number is even
\* (faulty variant: the data are not sorted)
MedianMutUnsorted(values) ==
    LET n == Len(values)
    IN  IF n % 2 = 1 THEN Frac(values[(n + 1) \div 2], 1)
        ELSE Frac(values[n \div 2] + values[n \div 2 + 1], 2)

Median(values) ==
    LET data == SortSeq(values, LAMBDA a, b : a < b)
        n == Len(data)
    IN  IF n % 2 = 1 THEN Frac(data[(n + 1) \div 2], 1)
        ELSE Frac(data[n \div 2] + data[n \div 2 + 1], 2)

\* the entries every get_*_metrics method reports for a non-empty series
SeriesSummary(p, kind, h) ==
    LET values == Ring(p, kind, h)
    IN  [ current |-> values[Len(values)],
          min |-> SeqMin(values),
          max |-> SeqMax(values),
          avg |-> Mean(values),
          history |-> LastN(Hist(p, kind, h), HistoryWindow) ]

SeriesMedian(p, kind, h) == [median |-> Median(Ring(p, kind, h))]

\* hosts = [host] if host else self.<kind>.keys(), then those with data;
\* the argument "" stands for None
ReportedHosts(p, kind, host) ==
    { h \in (IF host # "" THEN {host} ELSE DOMAIN p[kind]) :
          h \in DOMAIN p[kind] /\ Len(p[kind][h]) > 0 }

\* get_latency_metrics(host)
GetLatencyMetrics(p, host) ==
    [ h \in ReportedHosts(p, "latency", host) |->
          SeriesSummary(p, "latency", h) @@ SeriesMedian(p, "latency", h) ]

\* get_packet_loss_metrics(host)
GetPacketLossMetrics(p, host) ==
    [ h \in ReportedHosts(p, "packet_loss", host) |->
          SeriesSummary(p, "packet_loss", h) ]

\* get_jitter_metrics(host)
GetJitterMetrics(p, host) ==
    [ h \in ReportedHosts(p, "jitter", host) |-> SeriesSummary(p, "jitter", h) ]

\* get_dns_resolution_metrics(domain)
GetDnsResolutionMetrics(p, domain) ==
    [ d \in ReportedHosts(p, "dns_resolution", domain) |->
          SeriesSummary(p, "dns_resolution", d)
              @@ SeriesMedian(p, "dns_resolution", d) ]

\* get_connection_time_metrics(host)
GetConnectionTimeMetrics(p, host) ==
    [ h \in ReportedHosts(p, "connection_times", host) |->
          SeriesSummary(p, "connection_times", h)
              @@ SeriesMedian(p, "connection_times", h)
              @@ [retry_attempts |-> Retries(p, h)] ]

\* get_connection_time_metrics reads self.connection_retries[h]: the
\* defaultdict gains the key h, with 0, when it had none
RECURSIVE RetriesTouched(_, _)
RetriesTouched(retries, hosts) ==
    IF hosts = {} THEN retries
    ELSE LET h == CHOOSE x \in hosts : TRUE
         IN  RetriesTouched(DictSet(retries, h, DictGet(retries, h, 0)),
                            hosts \ {h})

AfterGetConnectionTimeMetrics(p, host) ==
    [ p EXCEPT !.connection_retries =
          RetriesTouched(@, ReportedHosts(p, "connection_times", host)) ]

\* get_comprehensive_metrics(host): the bundle of every host one of the
\* four summaries reports
GetComprehensiveMetrics(p, host) ==
    LET latency == GetLatencyMetrics(p, host)
        packet_loss == GetPacketLossMetrics(p, host)
        jitter == GetJitterMetrics(p, host)
        connection_time == GetConnectionTimeMetrics(p, host)
        p1 == AfterGetConnectionTimeMetrics(p, host)
        hosts == DOMAIN latency \cup DOMAIN packet_loss \cup DOMAIN jitter
                     \cup DOMAIN connection_time
    IN  [ h \in hosts |->
            LET dns_metrics == GetDnsResolutionMetrics(p1, h)
            IN  [ latency |-> DictGet(latency, h, EmptyDict),
                  packet_loss |-> DictGet(packet_loss, h, EmptyDict),
                  jitter |-> DictGet(jitter, h, EmptyDict),
                  connection_time |-> DictGet(connection_time, h, EmptyDict),
                  retry_attempts |-> Retries(p1, h) ]
                @@ ( IF ~IsIPAddress(h) /\ dns_metrics # EmptyDict
                     THEN [dns_resolution |-> DictGet(dns_metrics, h, EmptyDict)]
                     ELSE EmptyDict ) ]

\* measure_retries(host)
MeasureRetries(p, host) == Retries(p, host)

(***************************************************************************)
(* Threads of the collection scheduler                                     *)
(***************************************************************************)
WorkerIds == 1..MaxWorkers

CallerIds == {"c1", "c2"}

\* no thread exists after construction
WorkersInit == [w \in WorkerIds |-> "unborn"]

CallersInit == [c \in CallerIds |-> "idle"]

\* stopped: stop_monitoring was called; overlapped: two start_monitoring
\* calls were in progress at once
SchedInit ==
    [stopped |-> FALSE, overlapped |-> FALSE, spawned |-> 0, sweeps |-> 0, calls |-> 0]

(***************************************************************************)
(* The aggregator: NetworkMetricsManager and its collaborators             *)
(***************************************************************************)
AggIds == { "a1", "a2" }

ReaderIds == {"r1"}

\* what a reader holds after get_metrics(): self.aggregated_metrics itself,
\* which is no dict of the heap of bandwidth values
AllMetrics == -1

\* the keys of update_intervals
Categories ==
    << "device_metrics", "traffic_metrics", "performance_metrics",
       "bandwidth_metrics" >>

\* NetworkMetricsManager.__init__: nothing published, every last_update at
\* datetime.min, the lock free
\* good and failed are history: the value each key of aggregated_metrics
\* got from its last refresh that succeeded, and the keys whose last
\* refresh failed
MgrInit ==
    [ aggregated_metrics |-> EmptyDict,
      last_update |-> [c \in SeqRange(Categories) |-> "min"],
      lock |-> "free",
      good |-> EmptyDict,
      failed |-> {} ]

\* NetworkScanner.__init__ and TrafficAnalyzer.__init__ with no packets;
\* faults: the collaborator calls that raise when they are made
CollabInit ==
    [ scanning |-> FALSE, capturing |-> FALSE, devices |-> EmptyDict,
      connection_history |-> << >>, df |-> << >>, faults |-> {},
      lock |-> "free" ]

MgrVarsInit ==
    /\ mgr = MgrInit
    /\ collab = CollabInit
    /\ heap = << >>
    /\ aggs = [a \in AggIds |-> [pc |-> "unborn", metrics |-> 0, recent_df |-> << >>]]
    /\ readers = [r \in ReaderIds |-> [called |-> FALSE, ref |-> 0, got |-> EmptyDict]]
    /\ published = {}

(***************************************************************************)
(* SpecRing: one measurement, called again and again for one target with   *)
(* an explicit host list, until its rings have wrapped.  The n-th value a  *)
(* probe returns for a series is the label n, so that the contents of a    *)
(* ring tell which samples it kept.                                        *)
(***************************************************************************)
Measures == { "measure_latency", "measure_dns_resolution", "measure_jitter",
              "measure_connection_times" }

RingHosts == { "8.8.8.8", "example.com" }

NoFocus == [measure |-> "none", host |-> "none"]

NoCall == [op |-> "none"]

Label(kind, host) == Len(Delivered(recorded, kind, host)) + 1

RingPingResults(host) ==
    { [status |-> "ok", avg |-> a, loss |-> l] :
          a \in {None, Label("latency", host)},
          l \in {None, Label("packet_loss", host)} }
    \cup { [status |-> "timeout", avg |-> None, loss |-> None] }

RingProbeResults(kind, host) ==
    { [status |-> "ok", value |-> Label(kind, host)],
      [status |-> "nodata", value |-> None] }

RingInit ==
    /\ pm = PMInit
    /\ recorded = RecordedInit
    /\ focus \in [measure : Measures, host : RingHosts]
    /\ workers = WorkersInit
    /\ callers = CallersInit
    /\ sched = SchedInit
    /\ last = NoCall
    /\ MgrVarsInit

RingRoom(rec) ==
    \A k \in Kinds : \A h \in Hosts :
        Len(Delivered(rec, k, h)) <= RingRecords

RingLatency ==
    /\ focus.measure = "measure_latency"
    /\ \E res \in RingPingResults(focus.host) :
          /\ pm' = MeasureLatency(pm, << focus.host >>, << res >>)
          /\ recorded' = PingRecorded(recorded, focus.host, res)
    /\ RingRoom(recorded')
    /\ UNCHANGED << focus, workers, callers, sched, last, mgrVars >>

RingDns ==
    /\ focus.measure = "measure_dns_resolution"
    /\ \E res \in RingProbeResults("dns_resolution", focus.host) :
          /\ pm' = MeasureDnsResolution(pm, << focus.host >>, << res >>)
          /\ recorded' = ProbeRecorded(recorded, "dns_resolution", focus.host, res)
    /\ RingRoom(recorded')
    /\ UNCHANGED << focus, workers, callers, sched, last, mgrVars >>

RingJitter ==
    /\ focus.measure = "measure_jitter"
    /\ \E res \in RingProbeResults("jitter", focus.host) :
          /\ pm' = MeasureJitter(pm, << focus.host >>, << res >>)
          /\ recorded' = ProbeRecorded(recorded, "jitter", focus.host, res)
    /\ RingRoom(recorded')
    /\ UNCHANGED << focus, workers, callers, sched, last, mgrVars >>

RingConnection ==
    /\ focus.measure = "measure_connection_times"
    /\ \E res \in RingProbeResults("connection_times", focus.host) :
          /\ pm' = MeasureConnectionTimes(pm, << focus.host >>, << res >>)
          /\ recorded' = ProbeRecorded(recorded, "connection_times", focus.host, res)
    /\ RingRoom(recorded')
    /\ Retries(pm', focus.host) <= MaxRetries
    /\ UNCHANGED << focus, workers, callers, sched, last, mgrVars >>

RingNext == RingLatency \/ RingDns \/ RingJitter \/ RingConnection

SpecRing == RingInit /\ [][RingNext]_vars

\* C1: bounded history.  In every reachable state, for every kind and
\* target, the ring is never longer than its capacity and holds exactly
\* the last `capacity` values recorded, in insertion order; once more than
\* `capacity` values were recorded its length is the capacity.
Thm_C1_BoundedHistory ==
    \A k \in Kinds : \A h \in Hosts :
        /\ Len(Ring(pm, k, h)) <= Maxlen(k)
        /\ Ring(pm, k, h) = LastN(Delivered(recorded, k, h), Maxlen(k))
        /\ Len(Delivered(recorded, k, h)) > Maxlen(k) =>
               Len(Ring(pm, k, h)) = Maxlen(k)

\* more values than the largest capacity were recorded for one series
Wit_C1_RingWrapped ==
    \E h \in Hosts :
        /\ Len(Delivered(recorded, "latency", h)) > LatencyMaxlen
        /\ Len(Delivered(recorded, "packet_loss", h)) > PacketLossMaxlen

\* the capacities as C19 states them
ClaimedCapacity(k) ==
    IF k \in { "latency", "dns_resolution", "connection_times" } THEN 100 ELSE 50

\* the capacities of the deques of __init__
AmendedCapacity(k) == IF k = "latency" THEN 100 ELSE 50

\* C19 as stated: the ring capacity is 100 for the latency, DNS-resolution
\* and connection-time series and 50 for the packet-loss and jitter series:
\* a series is never longer than that number and has that length once as
\* many values were recorded.
Cex_C19_RingCapacities ==
    \A k \in Kinds : \A h \in Hosts :
        /\ Len(Ring(pm, k, h)) <= ClaimedCapacity(k)
        /\ Len(Delivered(recorded, k, h)) >= ClaimedCapacity(k) =>
               Len(Ring(pm, k, h)) = ClaimedCapacity(k)

\* C19, amended: the ring capacity is 100 for the latency series and 50 for
\* the packet-loss, DNS-resolution, jitter and connection-time series: a
\* series is never longer than that number and has that length once as
\* many values were recorded.
Thm_C19_RingCapacitiesAmended ==
    \A k \in Kinds : \A h \in Hosts :
        /\ Len(Ring(pm, k, h)) <= AmendedCapacity(k)
        /\ Len(Delivered(recorded, k, h)) >= AmendedCapacity(k) =>
               Len(Ring(pm, k, h)) = AmendedCapacity(k)

\* a hundred DNS-resolution times were recorded for a domain and its ring
\* holds fifty
Wit_C19_DnsRingAtFifty ==
    \E h \in Hosts :
        /\ Len(Delivered(recorded, "dns_resolution", h)) >= 100
        /\ Len(Ring(pm, "dns_resolution", h)) = 50

\* C20: the timestamped sample list is capped.  There is a bound, no
\* larger than the largest ring capacity, that the length of
\* historical_metrics[kind][target] never exceeds, whatever was recorded.
Cex_C20_TimestampedListCapped ==
    \E bound \in 1..LatencyMaxlen :
        \A k \in Kinds : \A h \in Hosts :
            Len(Hist(pm, k, h)) <= bound

(***************************************************************************)
(* SpecSched: start_monitoring and stop_monitoring called from two threads *)
(* and the monitor threads they create.  start_monitoring takes no lock:   *)
(* its test, its assignment and the thread creation are separate steps.    *)
(* Every probe of a sweep answers (value 1, no loss).                      *)
(***************************************************************************)
SchedPing == [status |-> "ok", avg |-> 1, loss |-> 0]

SchedProbe == [status |-> "ok", value |-> 1]

\* one result per host of a sweep over the given hosts
ResultsFor(hosts, res) == [i \in 1..Len(hosts) |-> res]

\* start_monitoring, line 46: if self._monitoring: return
StartCheck(c) ==
    /\ callers[c] = "idle"
    /\ sched.spawned + Cardinality({d \in CallerIds : callers[d] # "idle"})
           < MaxWorkers
    /\ callers' = [callers EXCEPT ![c] =
                      IF pm.monitoring THEN "idle" ELSE "start_set"]
    /\ sched' = [sched EXCEPT !.overlapped =
                      @ \/ \E d \in CallerIds : callers[d] # "idle"]
    /\ UNCHANGED << pm, recorded, focus, workers, last, mgrVars >>

\* start_monitoring, line 49: self._monitoring = True
StartSet(c) ==
    /\ callers[c] = "start_set"
    /\ pm' = [pm EXCEPT !.monitoring = TRUE]
    /\ callers' = [callers EXCEPT ![c] = "start_spawn"]
    /\ UNCHANGED << recorded, focus, workers, sched, last, mgrVars >>

\* start_monitoring, line 50: threading.Thread(target=self._monitor_loop).start()
StartSpawn(c) ==
    /\ callers[c] = "start_spawn"
    /\ \E w \in WorkerIds :
          /\ workers[w] = "unborn"
          /\ \A v \in WorkerIds : v < w => workers[v] # "unborn"
          /\ workers' = [workers EXCEPT ![w] = "loop"]
    /\ callers' = [callers EXCEPT ![c] = "idle"]
    /\ sched' = [sched EXCEPT !.spawned = @ + 1]
    /\ UNCHANGED << pm, recorded, focus, last, mgrVars >>

\* stop_monitoring: self._monitoring = False
StopMonitoring(c) ==
    /\ callers[c] = "idle"
    /\ pm' = [pm EXCEPT !.monitoring = FALSE]
    /\ sched' = [sched EXCEPT !.stopped = TRUE]
    /\ UNCHANGED << recorded, focus, workers, callers, last, mgrVars >>

\* _monitor_loop, line 60: while self._monitoring
\* (faulty variant: while True)
WorkerLoopMutForever(w) ==
    /\ workers[w] = "loop"
    /\ sched.sweeps < MaxSweeps
    /\ workers' = [workers EXCEPT ![w] = "latency"]
    /\ sched' = [sched EXCEPT !.sweeps = @ + 1]
    /\ UNCHANGED << pm, recorded, focus, callers, last, mgrVars >>

WorkerLoop(w) ==
    /\ workers[w] = "loop"
    /\ IF pm.monitoring
       THEN /\ sched.sweeps < MaxSweeps
            /\ workers' = [workers EXCEPT ![w] = "latency"]
            /\ sched' = [sched EXCEPT !.sweeps = @ + 1]
       ELSE /\ workers' = [workers EXCEPT ![w] = "done"]
            /\ UNCHANGED sched
    /\ UNCHANGED << pm, recorded, focus, callers, last, mgrVars >>

\* _monitor_loop, line 62: self.measure_latency()
\* (faulty variant: the connection-time sweep is next, the DNS-resolution
\* and jitter sweeps being started on their own)
WorkerLatencyMutOwnSchedule(w) ==
    /\ workers[w] = "latency"
    /\ pm' = MeasureLatency(pm, << >>,
                 ResultsFor(pm.common_destinations, SchedPing))
    /\ workers' = [workers EXCEPT ![w] = "connection"]
    /\ UNCHANGED << recorded, focus, callers, sched, last, mgrVars >>

WorkerLatency(w) ==
    /\ workers[w] = "latency"
    /\ pm' = MeasureLatency(pm, << >>,
                 ResultsFor(pm.common_destinations, SchedPing))
    /\ workers' = [workers EXCEPT ![w] = "dns"]
    /\ UNCHANGED << recorded, focus, callers, sched, last, mgrVars >>

\* _monitor_loop, line 63: self.measure_dns_resolution()
WorkerDns(w) ==
    /\ workers[w] = "dns"
    /\ pm' = MeasureDnsResolution(pm, << >>,
                 ResultsFor(pm.common_destinations, SchedProbe))
    /\ workers' = [workers EXCEPT ![w] = "jitter"]
    /\ UNCHANGED << recorded, focus, callers, sched, last, mgrVars >>

\* _monitor_loop, line 64: self.measure_jitter()
WorkerJitter(w) ==
    /\ workers[w] = "jitter"
    /\ pm' = MeasureJitter(pm, << >>,
                 ResultsFor(pm.common_destinations, SchedProbe))
    /\ workers' = [workers EXCEPT ![w] = "connection"]
    /\ UNCHANGED << recorded, focus, callers, sched, last, mgrVars >>

\* _monitor_loop, line 65: self.measure_connection_times()
WorkerConnection(w) ==
    /\ workers[w] = "connection"
    /\ pm' = MeasureConnectionTimes(pm, << >>,
                 ResultsFor(pm.common_destinations, SchedProbe))
    /\ workers' = [workers EXCEPT ![w] = "sleep"]
    /\ UNCHANGED << recorded, focus, callers, sched, last, mgrVars >>

\* _monitor_loop, line 66: time.sleep(self.interval) returns
WorkerSleep(w) ==
    /\ workers[w] = "sleep"
    /\ workers' = [workers EXCEPT ![w] = "loop"]
    /\ UNCHANGED << pm, recorded, focus, callers, sched, last, mgrVars >>

SchedInitState ==
    /\ pm = PMInit
    /\ recorded = RecordedInit
    /\ focus = NoFocus
    /\ workers = WorkersInit
    /\ callers = CallersInit
    /\ sched = SchedInit
    /\ last = NoCall
    /\ MgrVarsInit

SchedNext ==
    \/ \E c \in CallerIds :
          StartCheck(c) \/ StartSet(c) \/ StartSpawn(c) \/ StopMonitoring(c)
    \/ \E w \in WorkerIds :
          \/ WorkerLoop(w) \/ WorkerLatency(w) \/ WorkerDns(w)
          \/ WorkerJitter(w) \/ WorkerConnection(w) \/ WorkerSleep(w)

SpecSched == SchedInitState /\ [][SchedNext]_vars

\* C25: metric kinds are scheduled independently.  While the latency sweep
\* of a tick has not returned, the DNS-resolution sweep, the jitter sweep
\* and the connection-time sweep of the tick can start: none waits for the
\* latency sweep.
Cex_C25_KindsIndependent ==
    \A w \in WorkerIds :
        workers[w] = "latency" =>
            /\ ENABLED WorkerDns(w)
            /\ ENABLED WorkerJitter(w)
            /\ ENABLED WorkerConnection(w)

\* the order of the sweeps of a tick
SweepOrder == << "latency", "dns", "jitter", "connection", "sleep" >>

\* C25, amended: metric kinds are scheduled one after the other.  A monitor
\* thread runs the sweeps of a tick in the order latency and loss, DNS
\* resolution, jitter, connection time: the sweep of a kind starts when the
\* sweep before it has returned, not earlier, so a slow latency sweep
\* delays the three others.
Thm_C25_KindsInOrder ==
    [][\A w \in WorkerIds : \A i \in 2..Len(SweepOrder) :
          (workers'[w] = SweepOrder[i] /\ workers[w] # SweepOrder[i]) =>
              workers[w] = SweepOrder[i - 1]]_vars

\* the latency sweep of a tick has returned and its DNS-resolution sweep
\* has not begun
Wit_C25_DnsAfterLatency ==
    \E w \in WorkerIds :
        /\ workers[w] = "dns"
        /\ Ring(pm, "latency", "www.google.com") # << >>
        /\ Ring(pm, "dns_resolution", "www.google.com") = << >>

\* a monitor thread is inside an iteration of _monitor_loop: past the test
\* of the while and not yet at the sleep
InSweep(w) == workers[w] \in {"latency", "dns", "jitter", "connection"}

InFlightSweeps == Cardinality({w \in WorkerIds : InSweep(w)})

\* C2: non-overlap.  Under any interleaving of start_monitoring,
\* stop_monitoring and worker steps, at most one sweep is in flight.  It is
\* stated for the runs in which no two start_monitoring calls overlapped:
\* a stop followed by a start while the old worker is still sweeping.
Cex_C2_NonOverlap == ~sched.overlapped => InFlightSweeps <= 1

\* C10: start is a no-op when already running.  As long as stop_monitoring
\* was never called, the start_monitoring calls, sequential or concurrent,
\* have created at most one monitor thread.
Cex_C10_StartOnce == ~sched.stopped => sched.spawned <= 1

\* a step of the monitor thread w
WorkerStep(w) ==
    \/ WorkerLoop(w) \/ WorkerLatency(w) \/ WorkerDns(w)
    \/ WorkerJitter(w) \/ WorkerConnection(w) \/ WorkerSleep(w)

\* where the monitor thread w is after its next step
NextPosition(w) ==
    CASE workers[w] = "loop" -> IF pm.monitoring THEN "latency" ELSE "done"
      [] workers[w] = "latency" -> "dns"
      [] workers[w] = "dns" -> "jitter"
      [] workers[w] = "jitter" -> "connection"
      [] workers[w] = "connection" -> "sleep"
      [] workers[w] = "sleep" -> "loop"
      [] OTHER -> workers[w]

\* what a step of the monitor thread w does to the positions of the threads
WorkerMove(w) ==
    /\ workers[w] \notin { "unborn", "done" }
    /\ (workers[w] = "loop" /\ pm.monitoring) => sched.sweeps < MaxSweeps
    /\ workers' = [workers EXCEPT ![w] = NextPosition(w)]

\* SpecSched with a scheduler that is fair to every monitor thread: every
\* probe answers or times out, so a thread that can move does move.  The
\* steps that move the thread w are the steps WorkerStep(w).
SpecSchedFair ==
    SchedInitState /\ [][SchedNext]_vars
        /\ \A w \in WorkerIds : WF_workers(WorkerMove(w))

NoWorkerAlive == \A w \in WorkerIds : workers[w] \in { "unborn", "done" }

\* C11: cooperative stop of the collection scheduler.  A monitor thread
\* begins an iteration of its loop only when it reads _monitoring true, so
\* none begins while the flag is false after a stop; stop_monitoring
\* called again with the flag still false changes nothing; and when from some point on the
\* flag stays false (stop was called and start is not called again), every
\* monitor thread eventually terminates and none runs any more.
Thm_C11_CooperativeStop ==
    /\ [][\A w \in WorkerIds :
            (workers[w] = "loop" /\ workers'[w] = "latency") => pm.monitoring]_vars
    /\ [][\A c \in CallerIds :
            (sched.stopped /\ ~pm.monitoring /\ StopMonitoring(c))
                => UNCHANGED vars]_vars
    /\ (<>[](~pm.monitoring)) => <>[]NoWorkerAlive

\* stop_monitoring was called while a monitor thread was running, the
\* thread has finished its sweep and has terminated
Wit_C11_StoppedAndTerminated ==
    /\ sched.stopped /\ ~pm.monitoring
    /\ sched.sweeps >= 1
    /\ \E w \in WorkerIds : workers[w] = "done"
    /\ NoWorkerAlive

(***************************************************************************)
(* SpecSweep: a client calls the measure_* methods with the three targets  *)
(* A, B, C; every probe of a sweep delivers a value, delivers no data or   *)
(* raises.  The value target i delivers in the n-th call is 10 * i + n.    *)
(***************************************************************************)
SweepTargets == << "10.0.0.5", "8.8.8.8", "example.com" >>

SweepValue(i) == 10 * i + sched.sweeps + 1

SweepPingResults(i) ==
    { [status |-> "ok", avg |-> SweepValue(i), loss |-> 0],
      [status |-> "timeout", avg |-> None, loss |-> None],
      [status |-> "fault", avg |-> None, loss |-> None] }

SweepProbeResults(i) ==
    { [status |-> "ok", value |-> SweepValue(i)],
      [status |-> "nodata", value |-> None],
      [status |-> "fault", value |-> None] }

SweepPingVectors ==
    { r \in [1..Len(SweepTargets) ->
                UNION { SweepPingResults(i) : i \in 1..Len(SweepTargets) }] :
          \A i \in 1..Len(SweepTargets) : r[i] \in SweepPingResults(i) }

SweepProbeVectors ==
    { r \in [1..Len(SweepTargets) ->
                UNION { SweepProbeResults(i) : i \in 1..Len(SweepTargets) }] :
          \A i \in 1..Len(SweepTargets) : r[i] \in SweepProbeResults(i) }

\* the history gained from a whole sweep: every value a probe delivered
RECURSIVE PingsRecorded(_, _, _, _)
PingsRecorded(rec, hosts, results, i) ==
    IF i > Len(hosts) THEN rec
    ELSE PingsRecorded(PingRecorded(rec, hosts[i], results[i]),
                       hosts, results, i + 1)

RECURSIVE ProbesRecorded(_, _, _, _, _)
ProbesRecorded(rec, kind, hosts, results, i) ==
    IF i > Len(hosts) THEN rec
    ELSE ProbesRecorded(ProbeRecorded(rec, kind, hosts[i], results[i]),
                        kind, hosts, results, i + 1)

SweepInit ==
    /\ pm = PMInit
    /\ recorded = RecordedInit
    /\ focus = NoFocus
    /\ workers = WorkersInit
    /\ callers = CallersInit
    /\ sched = SchedInit
    /\ last = NoCall
    /\ MgrVarsInit

SweepCalled(op, results) ==
    /\ sched.sweeps < SweepCalls
    /\ sched' = [sched EXCEPT !.sweeps = @ + 1]
    /\ last' = [op |-> op, hosts |-> SweepTargets, results |-> results]
    /\ UNCHANGED << focus, workers, callers, mgrVars >>

SweepLatency ==
    \E results \in SweepPingVectors :
        /\ pm' = MeasureLatency(pm, SweepTargets, results)
        /\ recorded' = PingsRecorded(recorded, SweepTargets, results, 1)
        /\ SweepCalled("measure_latency", results)

SweepDns ==
    \E results \in SweepProbeVectors :
        /\ pm' = MeasureDnsResolution(pm, SweepTargets, results)
        /\ recorded' = ProbesRecorded(recorded, "dns_resolution",
                                      SweepTargets, results, 1)
        /\ SweepCalled("measure_dns_resolution", results)

SweepJitter ==
    \E results \in SweepProbeVectors :
        /\ pm' = MeasureJitter(pm, SweepTargets, results)
        /\ recorded' = ProbesRecorded(recorded, "jitter",
                                      SweepTargets, results, 1)
        /\ SweepCalled("measure_jitter", results)

SweepConnection ==
    \E results \in SweepProbeVectors :
        /\ pm' = MeasureConnectionTimes(pm, SweepTargets, results)
        /\ recorded' = ProbesRecorded(recorded, "connection_times",
                                      SweepTargets, results, 1)
        /\ SweepCalled("measure_connection_times", results)

SweepNext == SweepLatency \/ SweepDns \/ SweepJitter \/ SweepConnection

SpecSweep == SweepInit /\ [][SweepNext]_vars

\* the series a measure_* method writes the delivered value to
KindOf(op) ==
    CASE op = "measure_latency" -> "latency"
      [] op = "measure_dns_resolution" -> "dns_resolution"
      [] op = "measure_jitter" -> "jitter"
      [] op = "measure_connection_times" -> "connection_times"

ProbeFailed(res) == res.status # "ok"

DeliveredValue(op, res) ==
    IF op = "measure_latency" THEN res.avg ELSE res.value

HistValues(p, kind, host) ==
    [n \in 1..Len(Hist(p, kind, host)) |-> Hist(p, kind, host)[n].value]

\* C3: isolation.  After a sweep in which the probe of one target failed
\* (no data, or an exception), every other target of the sweep whose probe
\* delivered a value has that value as the newest element of its ring, and
\* its timestamped list holds every value its probes ever delivered.
Thm_C3_Isolation ==
    last.op \in Measures =>
        \A i, j \in 1..Len(last.hosts) :
            ( /\ i # j
              /\ ProbeFailed(last.results[j])
              /\ ~ProbeFailed(last.results[i]) ) =>
                LET h == last.hosts[i]
                    k == KindOf(last.op)
                    ring == Ring(pm, k, h)
                IN  /\ ring # << >>
                    /\ ring[Len(ring)] = DeliveredValue(last.op, last.results[i])
                    /\ HistValues(pm, k, h) = Delivered(recorded, k, h)

\* a latency sweep in which the probe of A raised and those of B and C
\* delivered
Wit_C3_AFailsOthersRecorded ==
    /\ last.op = "measure_latency"
    /\ last.results[1].status = "fault"
    /\ last.results[2].status = "ok"
    /\ last.results[3].status = "ok"
    /\ Ring(pm, "latency", last.hosts[3]) # << >>

(***************************************************************************)
(* SpecSummary: a client records latency samples and failed or successful  *)
(* connection probes for two targets and reads the summaries.              *)
(***************************************************************************)
SummaryHosts == { "1.1.1.1", "10.0.0.5" }

SummaryValues == { 10, 20, 30 }

SummaryInit ==
    /\ pm = PMInit
    /\ recorded = RecordedInit
    /\ focus = NoFocus
    /\ workers = WorkersInit
    /\ callers = CallersInit
    /\ sched = SchedInit
    /\ last = NoCall
    /\ MgrVarsInit

RECURSIVE CountOver(_, _, _)
CountOver(rec, key, hosts) ==
    IF hosts = {} THEN 0
    ELSE LET h == CHOOSE x \in hosts : TRUE
         IN  Len(Delivered(rec, key, h)) + CountOver(rec, key, hosts \ {h})

SamplesRecorded(rec) == CountOver(rec, "latency", SummaryHosts)

FailuresRecorded(rec) == CountOver(rec, "connect_failed", SummaryHosts)

\* measure_latency([h]) with a ping that delivers a latency
SummaryMeasureLatency ==
    \E h \in SummaryHosts : \E v \in SummaryValues :
        LET res == [status |-> "ok", avg |-> v, loss |-> 0]
        IN  /\ pm' = MeasureLatency(pm, << h >>, << res >>)
            /\ recorded' = PingRecorded(recorded, h, res)
            /\ SamplesRecorded(recorded') <= MaxSamples
            /\ last' = [op |-> "measure_latency", host |-> h]
            /\ UNCHANGED << focus, workers, callers, sched, mgrVars >>

\* measure_connection_times([h]) with a connect that fails
SummaryConnectFails ==
    \E h \in SummaryHosts :
        LET res == [status |-> "nodata", value |-> None]
        IN  /\ pm' = MeasureConnectionTimes(pm, << h >>, << res >>)
            /\ recorded' = ProbeRecorded(recorded, "connection_times", h, res)
            /\ FailuresRecorded(recorded') <= MaxRetries
            /\ last' = [op |-> "measure_connection_times", host |-> h]
            /\ UNCHANGED << focus, workers, callers, sched, mgrVars >>

\* get_latency_metrics(h)
SummaryGetLatency ==
    \E h \in SummaryHosts :
        /\ last' = [op |-> "get_latency_metrics", host |-> h,
                    ret |-> GetLatencyMetrics(pm, h)]
        /\ UNCHANGED << pm, recorded, focus, workers, callers, sched, mgrVars >>

\* measure_retries(h)
SummaryMeasureRetries ==
    \E h \in SummaryHosts :
        /\ last' = [op |-> "measure_retries", host |-> h,
                    ret |-> MeasureRetries(pm, h)]
        /\ UNCHANGED << pm, recorded, focus, workers, callers, sched, mgrVars >>

\* get_comprehensive_metrics(h)
SummaryGetComprehensive ==
    \E h \in SummaryHosts :
        /\ last' = [op |-> "get_comprehensive_metrics", host |-> h,
                    ret |-> GetComprehensiveMetrics(pm, h)]
        /\ pm' = AfterGetConnectionTimeMetrics(pm, h)
        /\ UNCHANGED << recorded, focus, workers, callers, sched, mgrVars >>

SummaryNext ==
    \/ SummaryMeasureLatency \/ SummaryConnectFails \/ SummaryGetLatency
    \/ SummaryMeasureRetries \/ SummaryGetComprehensive

SpecSummary == SummaryInit /\ [][SummaryNext]_vars

\* s is values put in ascending order
IsSortedCopy(s, values) ==
    /\ Len(s) = Len(values)
    /\ \A i \in 1..(Len(s) - 1) : s[i] <= s[i + 1]
    /\ \A x \in SeqRange(values) \cup SeqRange(s) :
          Cardinality({i \in 1..Len(s) : s[i] = x})
              = Cardinality({i \in 1..Len(values) : values[i] = x})

\* the fraction q is the median of values
IsMedianOf(q, values) ==
    \E s \in [1..Len(values) -> SeqRange(values)] :
        /\ IsSortedCopy(s, values)
        /\ LET n == Len(values)
           IN  IF n % 2 = 1 THEN q[1] = s[(n + 1) \div 2] * q[2]
               ELSE 2 * q[1] = (s[n \div 2] + s[n \div 2 + 1]) * q[2]

\* C7: summary correctness.  When get_latency_metrics(h) returns and the
\* values v1..vn (n >= 1, within the ring capacity) were recorded for h, the
\* entry of h has current = vn, min and max the least and greatest of them,
\* avg their arithmetic mean and median their median; recording 10, 20, 30
\* gives current 30, min 10, max 30, mean 20, median 20.
Thm_C7_SummaryCorrect ==
    last.op = "get_latency_metrics" =>
        LET vals == Delivered(recorded, "latency", last.host)
        IN  (vals # << >> /\ Len(vals) <= LatencyMaxlen) =>
              /\ last.host \in DOMAIN last.ret
              /\ LET r == last.ret[last.host]
                 IN  /\ r.current = vals[Len(vals)]
                     /\ r.min \in SeqRange(vals)
                     /\ \A x \in SeqRange(vals) : r.min <= x /\ x <= r.max
                     /\ r.max \in SeqRange(vals)
                     /\ r.avg[2] > 0 /\ r.median[2] > 0
                     /\ r.avg[1] * Len(vals) = SeqSum(vals) * r.avg[2]
                     /\ IsMedianOf(r.median, vals)
                     /\ vals = << 10, 20, 30 >> =>
                          /\ r.current = 30 /\ r.min = 10 /\ r.max = 30
                          /\ r.avg = << 20, 1 >> /\ r.median = << 20, 1 >>

\* the summary of a target after 10, 20, 30 were recorded for it
Wit_C7_TenTwentyThirty ==
    /\ last.op = "get_latency_metrics"
    /\ Delivered(recorded, "latency", last.host) = << 10, 20, 30 >>
    /\ last.host \in DOMAIN last.ret

\* C8: retry reporting.  After k >= 1 failed connection probes of a target
\* and no successful probe of any kind for it, measure_retries returns k and
\* get_comprehensive_metrics returns a bundle for the target whose
\* connection-time part reports retry attempts k with an empty history.
Cex_C8_RetryBundle ==
    LET h == last.host
        k == ConnectFailures(recorded, h)
        failedOnly == /\ k >= 1
                      /\ \A kind \in Kinds : Delivered(recorded, kind, h) = << >>
    IN  /\ (last.op = "measure_retries" /\ failedOnly) => last.ret = k
        /\ (last.op = "get_comprehensive_metrics" /\ failedOnly) =>
              /\ h \in DOMAIN last.ret
              /\ "retry_attempts" \in DOMAIN last.ret[h].connection_time
              /\ last.ret[h].connection_time.retry_attempts = k
              /\ last.ret[h].connection_time.history = << >>

(***************************************************************************)
(* SpecAdd: a client adds targets, some of them twice, through the monitor *)
(* and through the manager, between failed connection probes.              *)
(***************************************************************************)
AddHosts == { "8.8.8.8", "example.com", "::1" }

\* add_monitoring_target(host)
\* (faulty variant: the host is appended without the membership test)
AddMonitoringTargetMutAlways(p, host) ==
    [ p EXCEPT !.common_destinations = Append(@, host) ]

AddMonitoringTarget(p, host) ==
    IF host \notin SeqRange(p.common_destinations)
    THEN [ p EXCEPT !.common_destinations = Append(@, host) ]
    ELSE p

\* the DNS measurements add_performance_target(target) invokes: the
\* domains measure_dns_resolution([target]) probes when the target is not
\* an address for _is_ip_address
AddDnsProbes(target) ==
    IF ~IsIPAddress(target) THEN << target >> ELSE << >>

\* add_performance_target(target): the registration, then the forced
\* latency measurement and, for a target that is not an address, the forced
\* DNS-resolution measurement
AddPerformanceTarget(p, target, ping, dns) ==
    LET p1 == AddMonitoringTarget(p, target)
        p2 == MeasureLatency(p1, << target >>, << ping >>)
    IN  IF ~IsIPAddress(target)
        THEN MeasureDnsResolution(p2, << target >>, << dns >>)
        ELSE p2

\* a probe result with status "escape" is an exception the handler inside
\* measure_latency or measure_dns_resolution does not catch (it catches
\* Exception only), so that it leaves the call; an exception reaches the
\* except clause of add_performance_target
AddEscaped(target, ping, dns) ==
    \/ ping.status = "escape"
    \/ dns.status = "escape" /\ ~IsIPAddress(target)

\* add_performance_target(target) with its try block: the calls before
\* the one an exception leaves had their effect
AddPerformanceTargetTry(p, target, ping, dns) ==
    CASE ping.status = "escape" -> AddMonitoringTarget(p, target)
      [] AddEscaped(target, ping, dns) ->
             MeasureLatency(AddMonitoringTarget(p, target),
                            << target >>, << ping >>)
      [] OTHER -> AddPerformanceTarget(p, target, ping, dns)

\* the exception leaves add_performance_target: never, the try block has
\* a bare except clause that passes
\* (faulty variant: no try block)
AddPerformanceRaisesMutNoTry(escaped) == escaped
AddPerformanceRaises(escaped) == FALSE

AddPingResults ==
    { [status |-> "ok", avg |-> sched.calls + 1, loss |-> 0],
      [status |-> "nonzero", avg |-> None, loss |-> 100],
      [status |-> "fault", avg |-> None, loss |-> None],
      [status |-> "escape", avg |-> None, loss |-> None] }

AddDnsResults ==
    { [status |-> "ok", value |-> sched.calls + 1],
      [status |-> "nodata", value |-> None],
      [status |-> "escape", value |-> None] }

AddInit ==
    /\ pm = PMInit
    /\ recorded = RecordedInit
    /\ focus = NoFocus
    /\ workers = WorkersInit
    /\ callers = CallersInit
    /\ sched = SchedInit
    /\ last = NoCall
    /\ MgrVarsInit

\* a call of PerformanceMonitor.add_monitoring_target
AddCallMonitoring ==
    \E h \in AddHosts :
        /\ sched.calls < MaxAdds
        /\ pm' = AddMonitoringTarget(pm, h)
        /\ sched' = [sched EXCEPT !.calls = @ + 1]
        /\ last' = [op |-> "add_monitoring_target", host |-> h, before |-> pm,
                    latency_probes |-> << >>, dns_probes |-> << >>]
        /\ UNCHANGED << recorded, focus, workers, callers, mgrVars >>

\* a call of NetworkMetricsManager.add_performance_target
AddCallPerformance ==
    \E h \in AddHosts : \E ping \in AddPingResults : \E dns \in AddDnsResults :
      LET dns_probes == IF ping.status = "escape" THEN << >> ELSE AddDnsProbes(h)
      IN
        /\ sched.calls < MaxAdds
        /\ pm' = AddPerformanceTargetTry(pm, h, ping, dns)
        /\ recorded' =
              LET r1 == PingRecorded(recorded, h, ping)
              IN  CASE ping.status = "escape" -> recorded
                    [] dns_probes # << >> ->
                          ProbeRecorded(r1, "dns_resolution", h, dns)
                    [] OTHER -> r1
        /\ sched' = [sched EXCEPT !.calls = @ + 1]
        /\ last' = [op |-> "add_performance_target", host |-> h, before |-> pm,
                    latency_probes |-> << h >>,
                    dns_probes |-> dns_probes,
                    ping |-> ping,
                    dns |-> IF dns_probes # << >> THEN dns
                            ELSE [status |-> "none", value |-> None],
                    escaped |-> AddEscaped(h, ping, dns),
                    raised |-> AddPerformanceRaises(AddEscaped(h, ping, dns))]
        /\ UNCHANGED << focus, workers, callers, mgrVars >>

\* measure_connection_times([h]) with a connect that fails
AddConnectFails ==
    \E h \in AddHosts :
        LET res == [status |-> "nodata", value |-> None]
        IN  /\ CountOver(recorded, "connect_failed", AddHosts) < MaxRetries
            /\ pm' = MeasureConnectionTimes(pm, << h >>, << res >>)
            /\ recorded' = ProbeRecorded(recorded, "connection_times", h, res)
            /\ last' = [op |-> "measure_connection_times", host |-> h]
            /\ UNCHANGED << focus, workers, callers, sched, mgrVars >>

AddNext == AddCallMonitoring \/ AddCallPerformance \/ AddConnectFails

SpecAdd == AddInit /\ [][AddNext]_vars

\* the entries of the registry that are the host
Entries(p, host) ==
    { i \in 1..Len(p.common_destinations) : p.common_destinations[i] = host }

IsPrefix(s, t) == Len(s) <= Len(t) /\ SubSeq(t, 1, Len(s)) = s

\* the last call added a target the registry already held
AddedAgain ==
    /\ last.op \in { "add_monitoring_target", "add_performance_target" }
    /\ Entries(last.before, last.host) # {}

\* C5 as stated: the second add of a target leaves exactly one entry and
\* every ring, timestamped list and retry counter of the target unchanged.
Cex_C5_HistoryUnchanged ==
    AddedAgain =>
        /\ Cardinality(Entries(pm, last.host)) = 1
        /\ \A kind \in Kinds :
              /\ Ring(pm, kind, last.host) = Ring(last.before, kind, last.host)
              /\ Hist(pm, kind, last.host) = Hist(last.before, kind, last.host)
        /\ Retries(pm, last.host) = Retries(last.before, last.host)

\* C5, amended: the second add of a target leaves exactly one entry and
\* resets nothing: each timestamped list of the target keeps its entries as
\* a prefix, each ring is the old ring followed by the samples the call
\* appended, cut to the capacity, and the retry counter is unchanged;
\* add_monitoring_target changes none of them.
Thm_C5_AddKeepsHistory ==
    AddedAgain =>
        /\ Cardinality(Entries(pm, last.host)) = 1
        /\ \A kind \in Kinds :
              LET old == Hist(last.before, kind, last.host)
                  new == Hist(pm, kind, last.host)
                  added == [i \in 1..(Len(new) - Len(old)) |->
                               new[Len(old) + i].value]
              IN  /\ IsPrefix(old, new)
                  /\ Ring(pm, kind, last.host) =
                        LastN(Ring(last.before, kind, last.host) \o added,
                              Maxlen(kind))
                  /\ last.op = "add_monitoring_target" => new = old
        /\ Retries(pm, last.host) = Retries(last.before, last.host)
        /\ \A h \in Hosts \ {last.host} : \A kind \in Kinds :
              /\ Ring(pm, kind, h) = Ring(last.before, kind, h)
              /\ Hist(pm, kind, h) = Hist(last.before, kind, h)

\* a target with latency history and failed connects is added again through
\* the manager and its history grows
Wit_C5_AddedAgainWithHistory ==
    /\ AddedAgain
    /\ last.op = "add_performance_target"
    /\ Hist(last.before, "latency", last.host) # << >>
    /\ Retries(last.before, last.host) > 0
    /\ Len(Hist(pm, "latency", last.host))
          > Len(Hist(last.before, "latency", last.host))

\* an address literal: four decimal numbers below 256 between dots, or
\* hexadecimal groups between colons
HexChars == DigitChars \cup { "a", "b", "c", "d", "e", "f" }

IsIPv4Literal(chars) ==
    LET parts == SplitDots(chars, 1, << >>)
    IN  /\ Len(parts) = 4
        /\ \A i \in 1..4 : /\ parts[i] # << >>
                           /\ SeqRange(parts[i]) \subseteq DigitChars
                           /\ Len(parts[i]) <= 3

IsIPv6Literal(chars) ==
    /\ ":" \in SeqRange(chars)
    /\ SeqRange(chars) \subseteq HexChars \cup { ":" }

IsLiteralAddress(host) ==
    IsIPv4Literal(HostChars(host)) \/ IsIPv6Literal(HostChars(host))

\* C6: literal-address gating on add.  add_performance_target(t) invokes no
\* DNS-resolution measurement when t is a literal IP address, and exactly
\* one, besides the latency measurement, when t is a hostname (in a call
\* no exception cuts short).
Cex_C6_LiteralGating ==
    (last.op = "add_performance_target" /\ ~last.escaped) =>
        /\ last.latency_probes = << last.host >>
        /\ IsLiteralAddress(last.host) => last.dns_probes = << >>
        /\ ~IsLiteralAddress(last.host) => last.dns_probes = << last.host >>

\* what the forced probes of the last add_performance_target call yielded
\* for a kind: None when the probe yielded no value, raised, or was not
\* reached
WarmUpValue(kind) ==
    CASE kind = "latency" /\ last.ping.status \notin { "fault", "escape" } ->
             PingHost(last.ping)[1]
      [] kind = "packet_loss" /\ last.ping.status \notin { "fault", "escape" } ->
             PingHost(last.ping)[2]
      [] kind = "dns_resolution" /\ last.dns.status = "ok" -> last.dns.value
      [] OTHER -> None

TrafficIPs == { "192.168.1.2", "192.168.1.3" }

\* a row of the traffic table, between two stations
SelfRows ==
    { [source_ip |-> a, destination_ip |-> a, destination_port |-> 443,
       protocol |-> "TCP", packet_length |-> 1500] : a \in TrafficIPs }

TrafficRows ==
    { [source_ip |-> a, destination_ip |-> b, destination_port |-> 443,
       protocol |-> "TCP", packet_length |-> 1500] :
          a \in TrafficIPs, b \in TrafficIPs } \ SelfRows

RECURSIVE TablesUpTo(_)
TablesUpTo(n) ==
    IF n = 0 THEN { << >> }
    ELSE TablesUpTo(n - 1)
           \cup { Append(t, r) : t \in { x \in TablesUpTo(n - 1) : Len(x) = n - 1 },
                                 r \in TrafficRows }

\* group['packet_length'].sum() of the group of ip under column
RECURSIVE GroupBytes(_, _, _)
GroupBytes(rows, column, ip) ==
    IF rows = << >> THEN 0
    ELSE (IF Head(rows)[column] = ip THEN Head(rows).packet_length ELSE 0)
           + GroupBytes(Tail(rows), column, ip)

GroupKeys(rows, column) == { rows[i][column] : i \in 1..Len(rows) }

\* KB per second: total_bytes / interval / 1024
KBPerSecond(total_bytes, interval) == Frac(total_bytes, interval * 1024)

Zero == Frac(0, 1)

\* the loop of get_bandwidth_metrics over the groups of source_ip
FillUploads(metrics, rows, interval) ==
    [ ip \in DOMAIN metrics \cup GroupKeys(rows, "source_ip") |->
        IF ip \in GroupKeys(rows, "source_ip")
        THEN [ upload |->
                  KBPerSecond(GroupBytes(rows, "source_ip", ip), interval),
               download |->
                  IF ip \in DOMAIN metrics THEN metrics[ip].download ELSE Zero ]
        ELSE metrics[ip] ]

\* the loop of get_bandwidth_metrics over the groups of destination_ip
FillDownloads(metrics, rows, interval) ==
    [ ip \in DOMAIN metrics \cup GroupKeys(rows, "destination_ip") |->
        IF ip \in GroupKeys(rows, "destination_ip")
        THEN [ upload |->
                  IF ip \in DOMAIN metrics THEN metrics[ip].upload ELSE Zero,
               download |->
                  KBPerSecond(GroupBytes(rows, "destination_ip", ip), interval) ]
        ELSE metrics[ip] ]

\* value_counts(normalize=True) * 100 of a column
ValueShares(rows, column) ==
    [ v \in GroupKeys(rows, column) |->
        Frac(100 * Cardinality({ i \in 1..Len(rows) : rows[i][column] = v }),
             Len(rows)) ]

\* get_protocol_distribution(); every row of the tables here goes to port
\* 443, which common_ports names HTTPS
GetProtocolDistribution(df) ==
    IF df = << >>
    THEN [ transport_protocols |-> EmptyDict, application_protocols |-> EmptyDict ]
    ELSE [ transport_protocols |-> ValueShares(df, "protocol"),
           application_protocols |->
              [ app \in { "HTTPS" } |-> ValueShares(df, "destination_port")[443] ] ]

\* the object get_bandwidth_metrics builds its result in: metrics = {}
\* (faulty variant: the dict that is the entry of the category is emptied
\* and filled again)
MetricsObjectMutInPlace(hp, am) ==
    IF "bandwidth" \in DOMAIN am THEN am["bandwidth"] ELSE Len(hp) + 1

MetricsObject(hp, am) == Len(hp) + 1

\* the heap with the dict v as object m
HeapPut(hp, m, v) ==
    [ i \in 1..(IF m > Len(hp) THEN m ELSE Len(hp)) |->
        IF i = m THEN v ELSE hp[i] ]

AggInit ==
    /\ pm = PMInit
    /\ recorded = RecordedInit
    /\ focus = NoFocus
    /\ workers = WorkersInit
    /\ callers = CallersInit
    /\ sched = SchedInit
    /\ last = NoCall
    /\ mgr = MgrInit
    /\ collab \in { [CollabInit EXCEPT !.df = t] : t \in TablesUpTo(MaxPackets) }
    /\ heap = << >>
    /\ aggs = [a \in AggIds |-> [pc |-> "unborn", metrics |-> 0, recent_df |-> << >>]]
    /\ readers = [r \in ReaderIds |-> [called |-> FALSE, ref |-> 0, got |-> EmptyDict]]
    /\ published = {}

\* NetworkMetricsManager.start(): the three components are started, each
\* behind its own flag, and an aggregation thread is created
MgrStart ==
    LET a == IF aggs["a1"].pc = "unborn" THEN "a1" ELSE "a2"
    IN  /\ aggs[a].pc = "unborn"
        /\ collab' = [collab EXCEPT !.scanning = TRUE, !.capturing = TRUE]
        /\ IF pm.monitoring
           THEN UNCHANGED << pm, workers, sched >>
           ELSE /\ sched.spawned < MaxWorkers
                /\ pm' = [pm EXCEPT !.monitoring = TRUE]
                /\ workers' = [workers EXCEPT ![sched.spawned + 1] = "loop"]
                /\ sched' = [sched EXCEPT !.spawned = @ + 1]
        /\ aggs' = [aggs EXCEPT ![a].pc = "device_metrics"]
        /\ last' = [op |-> "start"]
        /\ UNCHANGED << recorded, focus, callers, mgr, heap, readers, published >>

\* NetworkMetricsManager.stop(): the three components are stopped
MgrStop ==
    /\ collab' = [collab EXCEPT !.scanning = FALSE, !.capturing = FALSE]
    /\ pm' = [pm EXCEPT !.monitoring = FALSE]
    /\ sched' = [sched EXCEPT !.stopped = TRUE]
    /\ last' = [op |-> "stop"]
    /\ UNCHANGED << recorded, focus, workers, callers, mgr, heap, aggs, readers,
                    published >>

\* (current_time - self.last_update[c]).total_seconds() >= interval: true
\* against datetime.min, and as the clock has it afterwards
Due(c) == IF mgr.last_update[c] = "min" THEN { TRUE } ELSE { TRUE, FALSE }

\* the history after the keys got their values of am from a refresh that
\* succeeded
Refreshed(m, am, keys) ==
    [ m EXCEPT !.good = [ k \in DOMAIN m.good \cup keys |->
                            IF k \in keys THEN am[k] ELSE m.good[k] ],
               !.failed = @ \ keys ]

\* the collaborator calls among points that raise
Raising(points) == collab.faults \cap points

\* a step of _aggregation_loop over a category whose update is one locked
\* block: the update when it is due, and the new last_update
AggStep(a, c, next, due, am, keys) ==
    /\ aggs[a].pc = c
    /\ IF due
       THEN /\ mgr.lock = "free"
            /\ mgr' = [Refreshed(mgr, am, keys) EXCEPT
                          !.aggregated_metrics = am,
                          !.last_update[c] = "set"]
       ELSE UNCHANGED mgr
    /\ aggs' = [aggs EXCEPT ![a].pc = next]

\* the rows of the table with ip as source or destination
DevicePackets(df, ip) ==
    SelectSeq(df, LAMBDA row : row.source_ip = ip \/ row.destination_ip = ip)

\* the loop body of update_device_bandwidth_metrics for the record of the
\* device ip: bandwidth_usage is assigned when get_bandwidth_metrics has
\* the key ip, protocol_distribution when the table has packets of ip
\* (faulty variant: the record is replaced by the two entries)
UpdatedDeviceMutReplace(device_data, df, ip) ==
    [ bandwidth_usage |->
          [ total_sent_bytes |-> GroupBytes(df, "source_ip", ip),
            total_received_bytes |-> GroupBytes(df, "destination_ip", ip) ],
      protocol_distribution |-> ValueShares(DevicePackets(df, ip), "protocol") ]

UpdatedDevice(device_data, df, ip) ==
    LET rows == LastN(df, TailRows)
        d1 == IF /\ df # << >>
                 /\ ip \in GroupKeys(rows, "source_ip")
                            \cup GroupKeys(rows, "destination_ip")
              THEN DictSet(device_data, "bandwidth_usage",
                      [ total_sent_bytes |-> GroupBytes(df, "source_ip", ip),
                        total_received_bytes |->
                            GroupBytes(df, "destination_ip", ip) ])
              ELSE device_data
    IN  IF DevicePackets(df, ip) # << >>
        THEN DictSet(d1, "protocol_distribution",
                     ValueShares(DevicePackets(df, ip), "protocol"))
        ELSE d1

\* update_device_bandwidth_metrics(network_scanner): every device of
\* network_scanner.devices is updated in place
UpdateDeviceBandwidthMetrics(c) ==
    [ c EXCEPT !.devices =
          [ ip \in DOMAIN @ |-> UpdatedDevice(@[ip], c.df, ip) ] ]

\* _update_device_metrics: the copy get_device_metrics returns becomes the
\* entry of the category, then the devices of the scanner are updated
AggDevices(a) ==
    /\ \E due \in Due("device_metrics") :
          /\ due => Raising({ "get_device_metrics",
                              "update_device_bandwidth_metrics" }) = {}
          /\ AggStep(a, "device_metrics", "traffic_metrics", due,
                     DictSet(mgr.aggregated_metrics, "devices", collab.devices),
                     { "devices" })
          /\ collab' = IF due THEN UpdateDeviceBandwidthMetrics(collab)
                       ELSE collab
    /\ UNCHANGED << pmVars, heap, readers, published >>

\* connection_history[:limit]
GetConnectionStats(limit) ==
    SubSeq(collab.connection_history, 1,
           IF Len(collab.connection_history) < limit
           THEN Len(collab.connection_history) ELSE limit)

\* the connections of the list with a source and a destination address
RealConnections(conns) ==
    SelectSeq(conns, LAMBDA conn : conn.src_ip # "" /\ conn.dst_ip # "")

\* _update_traffic_metrics (no connection is active: cleanup_stale_connections
\* has nothing to move)
AggTraffic(a) ==
    /\ \E due \in Due("traffic_metrics") :
          /\ due => Raising({ "get_protocol_distribution", "get_connection_stats",
                              "cleanup_stale_connections" }) = {}
          /\ AggStep(a, "traffic_metrics", "performance_metrics", due,
                     DictSet(DictSet(mgr.aggregated_metrics, "protocol_distribution",
                                     GetProtocolDistribution(collab.df)),
                             "recent_connections",
                             RealConnections(GetConnectionStats(ConnectionLimit))),
                     { "protocol_distribution", "recent_connections" })
    /\ UNCHANGED << pmVars, collab, heap, readers, published >>

\* _update_performance_metrics
AggPerformance(a) ==
    /\ \E due \in Due("performance_metrics") :
          /\ due => Raising({ "get_comprehensive_metrics" }) = {}
          /\ AggStep(a, "performance_metrics", "bandwidth_metrics", due,
                     DictSet(mgr.aggregated_metrics, "performance",
                             GetComprehensiveMetrics(pm, "")),
                     { "performance" })
          /\ pm' = IF due THEN AfterGetConnectionTimeMetrics(pm, "") ELSE pm
    /\ UNCHANGED << recorded, focus, workers, callers, sched, last, collab,
                    heap, readers, published >>

\* the bandwidth update is not due
AggBandwidthSkip(a) ==
    /\ aggs[a].pc = "bandwidth_metrics"
    /\ FALSE \in Due("bandwidth_metrics")
    /\ aggs' = [aggs EXCEPT ![a].pc = "sleep"]
    /\ UNCHANGED << pmVars, mgr, collab, heap, readers, published >>

\* _update_bandwidth_metrics takes the lock and get_bandwidth_metrics
\* begins: {} for an empty table, else the last rows and a new dict
AggBandwidthBegin(a) ==
    /\ aggs[a].pc = "bandwidth_metrics"
    /\ mgr.lock = "free"
    /\ Len(heap) < MaxObjects
    /\ mgr' = [mgr EXCEPT !.lock = a, !.failed = @ \ { "bandwidth" }]
    /\ LET m == IF collab.df = << >> THEN Len(heap) + 1
                ELSE MetricsObject(heap, mgr.aggregated_metrics)
       IN  /\ heap' = HeapPut(heap, m, EmptyDict)
           /\ aggs' = [aggs EXCEPT ![a] =
                 [ pc |-> IF collab.df = << >> THEN "publish" ELSE "sources",
                   metrics |-> m,
                   recent_df |-> LastN(collab.df, TailRows) ]]
    /\ UNCHANGED << pmVars, collab, readers, published >>

\* the loop over the source groups
AggBandwidthSources(a) ==
    /\ aggs[a].pc = "sources"
    /\ Raising({ "get_bandwidth_metrics" }) = {}
    /\ heap' = [heap EXCEPT ![aggs[a].metrics] =
                   FillUploads(@, aggs[a].recent_df, BandwidthInterval)]
    /\ aggs' = [aggs EXCEPT ![a].pc = "dests"]
    /\ UNCHANGED << pmVars, mgr, collab, readers, published >>

\* the loop over the destination groups
AggBandwidthDests(a) ==
    /\ aggs[a].pc = "dests"
    /\ Raising({ "get_bandwidth_metrics" }) = {}
    /\ heap' = [heap EXCEPT ![aggs[a].metrics] =
                   FillDownloads(@, aggs[a].recent_df, BandwidthInterval)]
    /\ aggs' = [aggs EXCEPT ![a].pc = "publish"]
    /\ UNCHANGED << pmVars, mgr, collab, readers, published >>

\* get_bandwidth_metrics returns, the dict becomes the entry of the
\* category, the lock is released and last_update is set
AggBandwidthPublish(a) ==
    /\ aggs[a].pc = "publish"
    /\ mgr' = [mgr EXCEPT
                  !.aggregated_metrics = DictSet(@, "bandwidth", aggs[a].metrics),
                  !.last_update["bandwidth_metrics"] = "set",
                  !.lock = "free",
                  !.good = IF "bandwidth" \in mgr.failed THEN @
                           ELSE DictSet(@, "bandwidth", heap[aggs[a].metrics])]
    /\ published' = published \cup
          { [ref |-> aggs[a].metrics, value |-> heap[aggs[a].metrics]] }
    /\ aggs' = [aggs EXCEPT ![a] =
                   [pc |-> "sleep", metrics |-> 0, recent_df |-> << >>]]
    /\ UNCHANGED << pmVars, collab, heap, readers >>

\* time.sleep(1), then the next iteration
AggSleep(a) ==
    /\ aggs[a].pc = "sleep"
    /\ aggs' = [aggs EXCEPT ![a].pc = "device_metrics"]
    /\ UNCHANGED << pmVars, mgr, collab, heap, readers, published >>

\* get_metrics("bandwidth"): under the lock, the entry of the category,
\* or a new {} when there is none
GetMetricsBandwidth(r) ==
    /\ mgr.lock = "free"
    /\ readers' = [readers EXCEPT ![r] =
          IF "bandwidth" \in DOMAIN mgr.aggregated_metrics
          THEN [called |-> TRUE, ref |-> mgr.aggregated_metrics["bandwidth"],
                got |-> heap[mgr.aggregated_metrics["bandwidth"]]]
          ELSE [called |-> TRUE, ref |-> 0, got |-> EmptyDict]]
    /\ UNCHANGED << pmVars, mgr, collab, heap, aggs, published >>

AggNext ==
    \/ MgrStart
    \/ MgrStop
    \/ \E a \in AggIds :
          \/ AggDevices(a) \/ AggTraffic(a) \/ AggPerformance(a)
          \/ AggBandwidthSkip(a) \/ AggBandwidthBegin(a)
          \/ AggBandwidthSources(a) \/ AggBandwidthDests(a)
          \/ AggBandwidthPublish(a) \/ AggSleep(a)
    \/ \E r \in ReaderIds : GetMetricsBandwidth(r)

SpecAgg == AggInit /\ [][AggNext]_vars

\* the dict a reader was handed, as the reader sees it now; 0 is the {}
\* get_metrics makes for a category without entry
Seen(r) ==
    IF readers[r].ref = 0 THEN EmptyDict
    ELSE IF readers[r].ref = AllMetrics THEN mgr.aggregated_metrics
    ELSE heap[readers[r].ref]

\* the complete bandwidth value of a table: for every station of its last
\* rows, the KB per second it sent and the KB per second it received
CompleteBandwidth(df) ==
    LET rows == LastN(df, TailRows)
        sent(ip) == GroupBytes(rows, "source_ip", ip)
        received(ip) == GroupBytes(rows, "destination_ip", ip)
    IN  [ ip \in GroupKeys(rows, "source_ip") \cup GroupKeys(rows, "destination_ip") |->
            [ upload |-> Frac(sent(ip), BandwidthInterval * 1024),
              download |-> Frac(received(ip), BandwidthInterval * 1024) ] ]

\* the dict is one that was published, as it was published
IsPublished(ref) ==
    \E pub \in published :
        /\ pub.ref = ref
        /\ heap[ref] = pub.value
        /\ pub.value = CompleteBandwidth(collab.df)

\* C4: snapshot atomicity.  The dict a reader got from
\* get_metrics("bandwidth") is, whenever the reader looks at it and whatever
\* _update_bandwidth_metrics is doing, a complete value that was published
\* for the category, never a value under construction; and the entry of the
\* category is such a value whenever the lock is free.
Thm_C4_SnapshotAtomicity ==
    /\ \A r \in ReaderIds :
          (readers[r].called /\ readers[r].ref # 0) =>
              IsPublished(readers[r].ref)
    /\ (mgr.lock = "free" /\ "bandwidth" \in DOMAIN mgr.aggregated_metrics) =>
          IsPublished(mgr.aggregated_metrics["bandwidth"])

\* a reader holds a published value with entries while an aggregation thread
\* is half way through the construction of the next one
Wit_C4_ReaderDuringRefresh ==
    \E r \in ReaderIds : \E a \in AggIds :
        /\ readers[r].called /\ readers[r].ref # 0
        /\ Seen(r) # EmptyDict
        /\ aggs[a].pc = "dests"
        /\ heap[aggs[a].metrics] # CompleteBandwidth(aggs[a].recent_df)
        /\ aggs[a].metrics # readers[r].ref

\* C9: the aggregator start is idempotent.  After any number of start()
\* calls, with or without stop() calls between them, at most one
\* aggregation thread is running.
Cex_C9_OneAggregator ==
    Cardinality({ a \in AggIds : aggs[a].pc # "unborn" }) <= 1

\* C12: cooperative stop of the aggregator.  After stop() the aggregation
\* thread observes the stop at a tick boundary: a thread that is at the end
\* of an iteration (in its sleep) while the last call of the client is
\* stop() begins no further iteration, so that no category is republished
\* by a later one.
Cex_C12_NoTickAfterStop ==
    [][\A a \in AggIds :
          (last.op = "stop" /\ aggs[a].pc = "sleep")
              => aggs'[a].pc # "device_metrics"]_vars

(***************************************************************************)
(* SpecAggFault: SpecAgg with collaborator calls that raise.  A call that  *)
(* has begun to raise raises every time it is made.                        *)
(***************************************************************************)
FaultPoints ==
    { "get_device_metrics", "update_device_bandwidth_metrics",
      "get_protocol_distribution", "get_connection_stats",
      "cleanup_stale_connections", "get_comprehensive_metrics",
      "get_bandwidth_metrics" }

\* the collaborator call f begins to raise
FaultBegins(f) ==
    /\ collab.faults = {}
    /\ collab' = [collab EXCEPT !.faults = { f }]
    /\ UNCHANGED << pmVars, mgr, heap, aggs, readers, published >>

\* the except clause of _aggregation_loop is entered by the thread a
Caught(a) == [aggs EXCEPT ![a].pc = "error_sleep"]

\* _update_device_metrics raises: get_device_metrics before the assignment,
\* update_device_bandwidth_metrics after it; the lock is released and
\* last_update keeps its value
AggDevicesRaises(a) ==
    /\ aggs[a].pc = "device_metrics"
    /\ mgr.lock = "free"
    /\ Raising({ "get_device_metrics", "update_device_bandwidth_metrics" }) # {}
    /\ mgr' = IF "get_device_metrics" \in collab.faults
              THEN [mgr EXCEPT !.failed = @ \cup { "devices" }]
              ELSE [Refreshed(mgr, DictSet(mgr.aggregated_metrics, "devices",
                                           collab.devices), { "devices" })
                       EXCEPT !.aggregated_metrics =
                                  DictSet(@, "devices", collab.devices)]
    /\ aggs' = Caught(a)
    /\ UNCHANGED << pmVars, collab, heap, readers, published >>

\* _update_traffic_metrics with a call that raises: its own except clause
\* ends the update where the call was made, and last_update is set
AggTrafficCaught(a) ==
    /\ aggs[a].pc = "traffic_metrics"
    /\ mgr.lock = "free"
    /\ Raising({ "get_protocol_distribution", "get_connection_stats",
                 "cleanup_stale_connections" }) # {}
    /\ LET am1 == DictSet(mgr.aggregated_metrics, "protocol_distribution",
                          GetProtocolDistribution(collab.df))
           am2 == DictSet(am1, "recent_connections",
                          GetConnectionStats(ConnectionLimit))
       IN  mgr' =
             IF "get_protocol_distribution" \in collab.faults
             THEN [mgr EXCEPT
                      !.failed = @ \cup { "protocol_distribution",
                                          "recent_connections" },
                      !.last_update["traffic_metrics"] = "set"]
             ELSE IF "get_connection_stats" \in collab.faults
             THEN [Refreshed(mgr, am1, { "protocol_distribution" }) EXCEPT
                      !.aggregated_metrics = am1,
                      !.failed = @ \cup { "recent_connections" },
                      !.last_update["traffic_metrics"] = "set"]
             ELSE [Refreshed(mgr, am2, { "protocol_distribution",
                                         "recent_connections" }) EXCEPT
                      !.aggregated_metrics = am2,
                      !.last_update["traffic_metrics"] = "set"]
    /\ aggs' = [aggs EXCEPT ![a].pc = "performance_metrics"]
    /\ UNCHANGED << pmVars, collab, heap, readers, published >>

\* _update_performance_metrics raises in get_comprehensive_metrics
AggPerformanceRaises(a) ==
    /\ aggs[a].pc = "performance_metrics"
    /\ mgr.lock = "free"
    /\ Raising({ "get_comprehensive_metrics" }) # {}
    /\ mgr' = [mgr EXCEPT !.failed = @ \cup { "performance" }]
    /\ aggs' = Caught(a)
    /\ UNCHANGED << pmVars, collab, heap, readers, published >>

\* get_bandwidth_metrics raises in one of its loops: its except clause
\* returns {} in place of the dict it was filling
AggBandwidthCaught(a) ==
    /\ aggs[a].pc \in { "sources", "dests" }
    /\ Raising({ "get_bandwidth_metrics" }) # {}
    /\ heap' = HeapPut(heap, aggs[a].metrics, EmptyDict)
    /\ mgr' = [mgr EXCEPT !.failed = @ \cup { "bandwidth" }]
    /\ aggs' = [aggs EXCEPT ![a].pc = "publish"]
    /\ UNCHANGED << pmVars, collab, readers, published >>

\* the except clause of _aggregation_loop: time.sleep(5), then the next
\* iteration
AggErrorSleep(a) ==
    /\ aggs[a].pc = "error_sleep"
    /\ aggs' = [aggs EXCEPT ![a].pc = "device_metrics"]
    /\ UNCHANGED << pmVars, mgr, collab, heap, readers, published >>

AggFaultInit ==
    /\ pm = PMInit
    /\ recorded = RecordedInit
    /\ focus = NoFocus
    /\ workers = WorkersInit
    /\ callers = CallersInit
    /\ sched = SchedInit
    /\ last = NoCall
    /\ mgr = MgrInit
    /\ collab \in { [CollabInit EXCEPT !.df = t] :
                      t \in { x \in TablesUpTo(MaxPackets) : Len(x) = 1 } }
    /\ heap = << >>
    /\ aggs = [a \in AggIds |-> [pc |-> "unborn", metrics |-> 0, recent_df |-> << >>]]
    /\ readers = [r \in ReaderIds |-> [called |-> FALSE, ref |-> 0, got |-> EmptyDict]]
    /\ published = {}

AggFaultNext ==
    \/ AggNext
    \/ \E f \in FaultPoints : FaultBegins(f)
    \/ \E a \in AggIds :
          \/ AggDevicesRaises(a) \/ AggTrafficCaught(a) \/ AggPerformanceRaises(a)
          \/ AggBandwidthCaught(a) \/ AggErrorSleep(a)

SpecAggFault == AggFaultInit /\ [][AggFaultNext]_vars

\* the collaborator calls the update of a category makes
PointsOf(c) ==
    CASE c = "device_metrics" ->
           { "get_device_metrics", "update_device_bandwidth_metrics" }
      [] c = "traffic_metrics" ->
           { "get_protocol_distribution", "get_connection_stats",
             "cleanup_stale_connections" }
      [] c = "performance_metrics" -> { "get_comprehensive_metrics" }
      [] c = "bandwidth_metrics" -> { "get_bandwidth_metrics" }

\* C13: aggregator failure isolation.  A category whose composition raises
\* does not keep the others from being refreshed: when an aggregation
\* thread is at the end of an iteration, in the sleep of the loop or in the
\* sleep of its except clause, every category none of whose calls raises
\* has been refreshed (in the first iteration every category is due).
Cex_C13_OthersRefreshed ==
    \A a \in AggIds :
        aggs[a].pc \in { "sleep", "error_sleep" } =>
            \A c \in SeqRange(Categories) :
                Raising(PointsOf(c)) = {} => mgr.last_update[c] # "min"

\* the value of the key k of aggregated_metrics, a dict of the heap for
\* the bandwidth
EntryValue(k) ==
    IF k = "bandwidth" THEN heap[mgr.aggregated_metrics[k]]
    ELSE mgr.aggregated_metrics[k]

\* C14: stale-but-valid on error.  When the last refresh of a category
\* failed because the call that composes its value raised, and the update
\* function has ended, the category has the value of its last refresh that
\* succeeded: it is neither cleared nor replaced.
Cex_C14_StaleButValid ==
    mgr.lock = "free" =>
        \A k \in mgr.failed \cap DOMAIN mgr.good :
            /\ k \in DOMAIN mgr.aggregated_metrics
            /\ EntryValue(k) = mgr.good[k]

(***************************************************************************)
(* SpecRead: SpecAgg with a reader that also calls get_metrics() and that  *)
(* may change the dict it was handed.                                      *)
(***************************************************************************)
\* get_metrics(): under the lock, return self.aggregated_metrics; got is
\* history, the value at the time of the call
GetMetricsAll(r) ==
    /\ mgr.lock = "free"
    /\ readers' = [readers EXCEPT ![r] =
          [called |-> TRUE, ref |-> AllMetrics, got |-> mgr.aggregated_metrics]]
    /\ UNCHANGED << pmVars, mgr, collab, heap, aggs, published >>

\* the reader calls clear() on the dict it was handed
ReaderClears(r) ==
    /\ readers[r].called /\ readers[r].ref # 0
    /\ Seen(r) # EmptyDict
    /\ IF readers[r].ref = AllMetrics
       THEN /\ mgr' = [mgr EXCEPT !.aggregated_metrics = EmptyDict]
            /\ UNCHANGED heap
       ELSE /\ heap' = [heap EXCEPT ![readers[r].ref] = EmptyDict]
            /\ UNCHANGED mgr
    /\ readers' = [readers EXCEPT ![r].got = EmptyDict]
    /\ UNCHANGED << pmVars, collab, aggs, published >>

ReadNext ==
    \/ AggNext
    \/ \E r \in ReaderIds : GetMetricsAll(r) \/ ReaderClears(r)

SpecRead == AggFaultInit /\ [][ReadNext]_vars

\* C15: reads return copies.  (a) The value a reader holds is still the
\* value it was handed, whatever was published since; (b) a reader that
\* changes the value it was handed changes neither aggregated_metrics nor a
\* dict that is an entry of it.
Cex_C15_ReadsAreCopies ==
    /\ [](\A r \in ReaderIds : readers[r].called => Seen(r) = readers[r].got)
    /\ [][\A r \in ReaderIds :
             ReaderClears(r) => (mgr' = mgr /\ heap' = heap)]_vars

(***************************************************************************)
(* SpecLock: the two locks and the probes, a step at a time.  A measuring  *)
(* thread (the monitor loop, or a caller of add_performance_target) is in  *)
(* a measure_* call over a list of hosts: for each host it is in the probe,*)
(* then waits for PerformanceMonitor._lock, then holds it and stores.  The *)
(* aggregation thread runs its loop; _update_performance_metrics holds the *)
(* manager lock while the getters of get_comprehensive_metrics take and    *)
(* release the monitor lock one after the other.                           *)
(***************************************************************************)
LockHosts == << "www.google.com", "8.8.8.8" >>

\* the hosts argument of a measure_* call
LockHostLists == { << LockHosts[2] >>, LockHosts }

LockPingResults ==
    { [status |-> "ok", avg |-> 10, loss |-> 0],
      [status |-> "nonzero", avg |-> None, loss |-> 100],
      [status |-> "fault", avg |-> None, loss |-> None] }

LockProbeResults ==
    { [status |-> "ok", value |-> 10],
      [status |-> "nodata", value |-> None],
      [status |-> "fault", value |-> None] }

NoResult == [status |-> "none"]

\* a measuring thread before its measure_* call, and after it returned
Idle == [pc |-> "idle", kind |-> "none", hosts |-> << >>, res |-> NoResult]

Returned == [Idle EXCEPT !.pc = "returned"]

\* the owner of PerformanceMonitor._lock when thread t enters a probe: the
\* probe is called before the with statement, the lock is not touched
LockWhileProbingMutHeld(owner, t) == t
LockWhileProbing(owner, t) == owner

\* the thread goes on to the probe of the next host, or returns
AtHosts(c, kind, hosts) ==
    IF hosts = << >> THEN Returned
    ELSE [pc |-> "probe", kind |-> kind, hosts |-> hosts, res |-> NoResult]

EnterProbe(p, c, hosts) ==
    IF hosts = << >> THEN p
    ELSE [p EXCEPT !.lock = LockWhileProbing(@, c)]

\* measure_latency(hosts), measure_dns_resolution(hosts),
\* measure_jitter(hosts), measure_connection_times(hosts) is called
LockMeasure(c) ==
    /\ callers[c].pc = "idle"
    /\ \E kind \in Kinds \ { "packet_loss" }, hosts \in LockHostLists :
          /\ callers' = [callers EXCEPT ![c] = AtHosts(c, kind, hosts)]
          /\ pm' = EnterProbe(pm, c, hosts)
    /\ UNCHANGED << recorded, focus, workers, sched, last, mgrVars >>

\* _ping_host, _measure_dns_resolution_time, _measure_jitter or
\* _measure_connection_time returns or raises; an exception goes to the
\* except clause of the loop body
LockProbeReturns(c) ==
    /\ callers[c].pc = "probe"
    /\ \E res \in (IF callers[c].kind = "latency" THEN LockPingResults
                   ELSE LockProbeResults) :
          LET host == Head(callers[c].hosts)
              p == IF callers[c].kind = "connection_times" /\ res.status # "fault"
                   THEN MeasureConnectionTime(pm, host, res)
                   ELSE pm
          IN  IF res.status = "fault"
              THEN /\ callers' = [callers EXCEPT ![c] =
                         AtHosts(c, callers[c].kind, Tail(callers[c].hosts))]
                   /\ pm' = EnterProbe(p, c, Tail(callers[c].hosts))
              ELSE /\ callers' = [callers EXCEPT ![c].pc = "with_lock",
                                                 ![c].res = res]
                   /\ pm' = p
    /\ UNCHANGED << recorded, focus, workers, sched, last, mgrVars >>

\* with self._lock: the thread gets the lock
\* (faulty variant: the block is entered whoever holds the lock)
LockAcquireMutNoWait(c) ==
    /\ callers[c].pc = "with_lock"
    /\ pm' = [pm EXCEPT !.lock = c]
    /\ callers' = [callers EXCEPT ![c].pc = "locked"]
    /\ UNCHANGED << recorded, focus, workers, sched, last, mgrVars >>

LockAcquire(c) ==
    /\ callers[c].pc = "with_lock"
    /\ pm.lock = "free"
    /\ pm' = [pm EXCEPT !.lock = c]
    /\ callers' = [callers EXCEPT ![c].pc = "locked"]
    /\ UNCHANGED << recorded, focus, workers, sched, last, mgrVars >>

\* what the locked block of the loop body stores
LockStored(p, kind, host, res) ==
    CASE kind = "latency" -> MeasureLatencyHost(p, host, res)
      [] kind = "dns_resolution" -> MeasureDnsHost(p, host, res)
      [] kind = "jitter" -> MeasureJitterHost(p, host, res)
      [] OTHER -> StoreIfData(p, "connection_times", host, res.value)

\* the locked block: the sample is stored, the lock is released, the loop
\* goes on
LockStore(c) ==
    /\ callers[c].pc = "locked"
    /\ LET stored == LockStored(pm, callers[c].kind, Head(callers[c].hosts),
                                callers[c].res)
       IN  pm' = EnterProbe([stored EXCEPT !.lock = "free"], c,
                            Tail(callers[c].hosts))
    /\ callers' = [callers EXCEPT ![c] =
                      AtHosts(c, callers[c].kind, Tail(callers[c].hosts))]
    /\ UNCHANGED << recorded, focus, workers, sched, last, mgrVars >>

\* the getters get_comprehensive_metrics calls, in order; the DNS getter is
\* called for the hosts of the result that are no IP address
Getters ==
    << "get_latency_metrics", "get_packet_loss_metrics", "get_jitter_metrics",
       "get_connection_time_metrics", "get_dns_resolution_metrics" >>

\* the position in _update_performance_metrics after getter number i
AfterGetter(p, i) ==
    IF i < 4 THEN Getters[i + 1]
    ELSE IF i = 4 /\ \E h \in DOMAIN GetComprehensiveMetrics(p, "") :
                        ~IsIPAddress(h)
    THEN Getters[5]
    ELSE "assign"

\* the performance update is not due
PerfSkip(a) ==
    /\ aggs[a].pc = "performance_metrics"
    /\ FALSE \in Due("performance_metrics")
    /\ aggs' = [aggs EXCEPT ![a].pc = "bandwidth_metrics"]
    /\ UNCHANGED << pmVars, mgr, collab, heap, readers, published >>

\* _update_performance_metrics takes the manager lock
PerfLock(a) ==
    /\ aggs[a].pc = "performance_metrics"
    /\ mgr.lock = "free"
    /\ mgr' = [mgr EXCEPT !.lock = a]
    /\ aggs' = [aggs EXCEPT ![a].pc = Getters[1]]
    /\ UNCHANGED << pmVars, collab, heap, readers, published >>

\* a getter takes the monitor lock
PerfGetterEnter(a) ==
    /\ \E i \in 1..Len(Getters) :
          /\ aggs[a].pc = Getters[i]
          /\ aggs' = [aggs EXCEPT ![a].pc = "in", ![a].metrics = i]
    /\ pm.lock = "free"
    /\ pm' = [pm EXCEPT !.lock = a]
    /\ UNCHANGED << recorded, focus, workers, callers, sched, last, mgr,
                    collab, heap, readers, published >>

\* the getter has read the store and releases the monitor lock
PerfGetterLeave(a) ==
    /\ aggs[a].pc = "in"
    /\ LET i == aggs[a].metrics
           p == IF i = 4 THEN AfterGetConnectionTimeMetrics(pm, "") ELSE pm
       IN  /\ pm' = [p EXCEPT !.lock = "free"]
           /\ aggs' = [aggs EXCEPT ![a].pc = AfterGetter(p, i),
                                   ![a].metrics = 0]
    /\ UNCHANGED << recorded, focus, workers, callers, sched, last, mgr,
                    collab, heap, readers, published >>

\* the bundle becomes the entry of the category and the manager lock is
\* released; last_update is set
PerfAssign(a) ==
    /\ aggs[a].pc = "assign"
    /\ LET am == DictSet(mgr.aggregated_metrics, "performance",
                         GetComprehensiveMetrics(pm, ""))
       IN  mgr' = [Refreshed(mgr, am, { "performance" }) EXCEPT
                      !.aggregated_metrics = am,
                      !.last_update["performance_metrics"] = "set",
                      !.lock = "free"]
    /\ aggs' = [aggs EXCEPT ![a].pc = "bandwidth_metrics"]
    /\ UNCHANGED << pmVars, collab, heap, readers, published >>

LockInit ==
    /\ pm = PMInit
    /\ recorded = RecordedInit
    /\ focus = NoFocus
    /\ workers = WorkersInit
    /\ callers = [c \in CallerIds |-> Idle]
    /\ sched = SchedInit
    /\ last = NoCall
    /\ MgrVarsInit

\* start() is called once in this specification
LockStart == aggs["a1"].pc = "unborn" /\ MgrStart

LockNext ==
    \/ LockStart
    \/ \E c \in CallerIds :
          LockMeasure(c) \/ LockProbeReturns(c) \/ LockAcquire(c) \/ LockStore(c)
    \/ \E a \in AggIds :
          \/ AggDevices(a) \/ AggTraffic(a)
          \/ PerfSkip(a) \/ PerfLock(a) \/ PerfGetterEnter(a)
          \/ PerfGetterLeave(a) \/ PerfAssign(a)
          \/ AggBandwidthSkip(a) \/ AggBandwidthBegin(a)
          \/ AggBandwidthPublish(a) \/ AggSleep(a)

SpecLock == LockInit /\ [][LockNext]_vars

\* the thread is executing a probe call
InProbe(t) == t \in CallerIds /\ callers[t].pc = "probe"

\* the threads a get_metrics call is waiting for: the holder of the manager
\* lock and, when that thread waits for the monitor lock, its holder
GetMetricsWaitsFor ==
    IF mgr.lock = "free" THEN {}
    ELSE { mgr.lock }
           \cup (IF /\ \E i \in 1..Len(Getters) : aggs[mgr.lock].pc = Getters[i]
                    /\ pm.lock # "free"
                 THEN { pm.lock } ELSE {})

\* C16: no lock is held across a probe.  A thread that is executing a probe
\* call holds neither the PerformanceMonitor lock nor the
\* NetworkMetricsManager lock, and no thread a get_metrics call is waiting
\* for is executing a probe.
Thm_C16_NoLockAcrossProbe ==
    /\ \A c \in CallerIds : InProbe(c) => (pm.lock # c /\ mgr.lock # c)
    /\ \A t \in GetMetricsWaitsFor : ~InProbe(t)

\* a probe is in progress while get_metrics waits for the aggregation
\* thread, which waits for the monitor lock another measuring thread holds
Wit_C16_ProbeWhileLocksHeld ==
    /\ InProbe("c1")
    /\ pm.lock = "c2"
    /\ mgr.lock \in AggIds
    /\ GetMetricsWaitsFor = { mgr.lock, "c2" }

(***************************************************************************)
(* SpecDetails: the aggregation loop with connections.  The capture (not   *)
(* part of the repository) makes connections active; a connection that    *)
(* went stale is moved to the history by cleanup_stale_connections.  The   *)
(* scanner finds a device, and a client calls get_device_details.  The     *)
(* k-th connection that goes stale is Connection(k).                       *)
(***************************************************************************)
DetailIPs == TrafficIPs \cup { "192.168.1.4" }

Connection(k) ==
    CASE k % 8 = 0 -> [id |-> k, src_ip |-> "", dst_ip |-> "192.168.1.2"]
      [] k % 6 = 0 -> [id |-> k, src_ip |-> "192.168.1.3", dst_ip |-> "192.168.1.4"]
      [] k % 2 = 1 -> [id |-> k, src_ip |-> "192.168.1.2", dst_ip |-> "192.168.1.3"]
      [] OTHER -> [id |-> k, src_ip |-> "192.168.1.3", dst_ip |-> "192.168.1.2"]

\* cleanup_stale_connections with a stale connection among the active ones:
\* its record is inserted at the head of the history and it is popped from
\* the dict under iteration, which ends the loop (RuntimeError, caught by
\* _update_traffic_metrics)
CleanupStaleConnections(c, stale) ==
    IF stale
    THEN [c EXCEPT !.connection_history =
                       << Connection(Len(@) + 1) >> \o @]
    ELSE c

\* _update_traffic_metrics, with the capture
DetailsTraffic(a) ==
    /\ \E due \in Due("traffic_metrics") :
          /\ AggStep(a, "traffic_metrics", "performance_metrics", due,
                     DictSet(DictSet(mgr.aggregated_metrics, "protocol_distribution",
                                     GetProtocolDistribution(collab.df)),
                             "recent_connections",
                             RealConnections(GetConnectionStats(ConnectionLimit))),
                     { "protocol_distribution", "recent_connections" })
          /\ \E stale \in BOOLEAN :
                /\ stale => (due /\ Len(collab.connection_history) < MaxConnections)
                /\ collab' = CleanupStaleConnections(collab, stale)
    /\ UNCHANGED << pmVars, heap, readers, published >>

\* scan_network: the record of a device that is found for the first time
NewDevice ==
    [ mac |-> "Unknown", hostname |-> "Unknown",
      bandwidth_usage |-> [total_sent_bytes |-> 0, total_received_bytes |-> 0],
      protocol_distribution |-> EmptyDict ]

\* the scanner finds the device of an address
DetailsScan ==
    /\ collab.scanning
    /\ \E ip \in TrafficIPs :
          /\ ip \notin DOMAIN collab.devices
          /\ collab' = [collab EXCEPT !.devices = DictSet(@, ip, NewDevice)]
    /\ UNCHANGED << pmVars, mgr, heap, aggs, readers, published >>

\* device_connections[:10]
\* (faulty variant: no cap)
DeviceConnectionsSliceMutAll(conns) == conns
DeviceConnectionsSlice(conns) ==
    SubSeq(conns, 1, IF Len(conns) < DetailLimit THEN Len(conns) ELSE DetailLimit)

\* the result of get_device_details(ip) for the aggregated metrics am
DeviceDetails(am, hp, ip) ==
    LET device_metrics ==
            IF "devices" \in DOMAIN am THEN DictGet(am["devices"], ip, EmptyDict)
            ELSE EmptyDict
        r1 == IF device_metrics # EmptyDict THEN device_metrics ELSE EmptyDict
        bandwidth ==
            IF "bandwidth" \in DOMAIN am
            THEN DictGet(hp[am["bandwidth"]], ip, EmptyDict)
            ELSE EmptyDict
        r2 == IF bandwidth # EmptyDict
              THEN DictSet(r1, "real_time_bandwidth", bandwidth) ELSE r1
    IN  IF "recent_connections" \in DOMAIN am
        THEN DictSet(r2, "recent_connections",
                 DeviceConnectionsSlice(
                     SelectSeq(am["recent_connections"],
                               LAMBDA conn : conn.src_ip = ip \/ conn.dst_ip = ip)))
        ELSE r2

\* get_device_details(ip): under the lock; last keeps the result and the
\* list that was published at the call
GetDeviceDetails ==
    /\ mgr.lock = "free"
    /\ \E ip \in DetailIPs :
          last' = [op |-> "get_device_details", ip |-> ip,
                   result |-> DeviceDetails(mgr.aggregated_metrics, heap, ip),
                   published |-> DictGet(mgr.aggregated_metrics,
                                         "recent_connections", << >>)]
    /\ UNCHANGED << pm, recorded, focus, workers, callers, sched, mgrVars >>

DetailsNext ==
    \/ LockStart
    \/ DetailsScan
    \/ GetDeviceDetails
    \/ \E a \in AggIds :
          \/ AggDevices(a) \/ DetailsTraffic(a) \/ AggPerformance(a)
          \/ AggBandwidthSkip(a) \/ AggBandwidthBegin(a)
          \/ AggBandwidthSources(a) \/ AggBandwidthDests(a)
          \/ AggBandwidthPublish(a) \/ AggSleep(a)

SpecDetails == AggFaultInit /\ [][DetailsNext]_vars

\* the positions of the published list whose connection has ip as source
\* or destination
Matching(conns, ip) ==
    { i \in 1..Len(conns) : conns[i].src_ip = ip \/ conns[i].dst_ip = ip }

\* C18: get_device_details is a pure read.  The call changes neither
\* aggregated_metrics nor the state of a collaborator, and the
\* recent_connections of its result has at most 10 entries, each with ip as
\* source or destination: the j-th entry is the j-th matching entry of the
\* list that was published.
Thm_C18_DeviceDetailsPureRead ==
    /\ [](last.op = "get_device_details" =>
            ("recent_connections" \in DOMAIN last.result =>
               LET got == last.result["recent_connections"]
                   m == Matching(last.published, last.ip)
               IN  /\ Len(got) <= 10
                   /\ Len(got) = IF Cardinality(m) < 10 THEN Cardinality(m) ELSE 10
                   /\ \A j \in 1..Len(got) :
                         /\ got[j].src_ip = last.ip \/ got[j].dst_ip = last.ip
                         /\ \E i \in m :
                               /\ Cardinality({ x \in m : x <= i }) = j
                               /\ got[j] = last.published[i]))
    /\ [][(last'.op = "get_device_details" /\ last' # last) =>
             (mgr' = mgr /\ collab' = collab /\ heap' = heap /\ pm' = pm)]_vars

\* the details of a scanned device with bandwidth and more than ten
\* matching connections among the published ones, some of which do not match
Wit_C18_MoreThanTenMatch ==
    /\ last.op = "get_device_details"
    /\ "hostname" \in DOMAIN last.result
    /\ "real_time_bandwidth" \in DOMAIN last.result
    /\ "recent_connections" \in DOMAIN last.result
    /\ Cardinality(Matching(last.published, last.ip)) > 10
    /\ Len(last.published) > Cardinality(Matching(last.published, last.ip))
    /\ Len(last.result["recent_connections"]) = 10

(***************************************************************************)
(* SpecRetry: two threads call measure_connection_times([host]).  A        *)
(* connect that fails runs self.connection_retries[host] += 1 with no      *)
(* lock: the read of the counter and the store of the sum are two steps.   *)
(***************************************************************************)
RetryHosts == { "example.com", "www.github.com" }

\* the thread is not in _measure_connection_time
RetryIdle == [pc |-> "idle", host |-> "none", read |-> 0]

\* the connect raises: the except clause reads self.connection_retries[host]
\* (the defaultdict gains the key, with 0, when it had none)
RetryRead(c) ==
    /\ callers[c].pc = "idle"
    /\ CountOver(recorded, "connect_failed", RetryHosts) < MaxRetries
    /\ \E host \in RetryHosts :
          /\ callers' = [callers EXCEPT ![c] =
                [pc |-> "add", host |-> host, read |-> Retries(pm, host)]]
          /\ pm' = [pm EXCEPT !.connection_retries =
                       DictSet(@, host, Retries(pm, host))]
          /\ recorded' = Recorded(recorded, "connect_failed", host, "nodata")
    /\ UNCHANGED << focus, workers, sched, last, mgrVars >>

\* the sum is stored, _measure_connection_time returns None and the locked
\* block of measure_connection_times stores nothing
RetryStore(c) ==
    /\ callers[c].pc = "add"
    /\ pm' = [pm EXCEPT !.connection_retries =
                 DictSet(@, callers[c].host, callers[c].read + 1)]
    /\ callers' = [callers EXCEPT ![c] = RetryIdle]
    /\ UNCHANGED << recorded, focus, workers, sched, last, mgrVars >>

\* the connect succeeds and its time is stored
RetryConnects(c) ==
    /\ callers[c].pc = "idle"
    /\ CountOver(recorded, "connection_times", RetryHosts) < MaxSamples
    /\ \E host \in RetryHosts :
          LET res == [status |-> "ok", value |-> 10]
          IN  /\ pm' = MeasureConnectionTimes(pm, << host >>, << res >>)
              /\ recorded' = ProbeRecorded(recorded, "connection_times", host, res)
    /\ UNCHANGED << focus, workers, callers, sched, last, mgrVars >>

RetryInit ==
    /\ pm = PMInit
    /\ recorded = RecordedInit
    /\ focus = NoFocus
    /\ workers = WorkersInit
    /\ callers = [c \in CallerIds |-> RetryIdle]
    /\ sched = SchedInit
    /\ last = NoCall
    /\ MgrVarsInit

RetryNext ==
    \E c \in CallerIds : RetryRead(c) \/ RetryStore(c) \/ RetryConnects(c)

SpecRetry == RetryInit /\ [][RetryNext]_vars

\* C21: the retry counter is monotone and loses no update.  The counter of
\* a target never decreases, and when no thread is inside
\* _measure_connection_time it equals the number of connection probes of the
\* target that failed.
Cex_C21_RetryCounterExact ==
    /\ [](\A h \in RetryHosts :
            (\A c \in CallerIds : callers[c].pc = "idle") =>
                Retries(pm, h) = ConnectFailures(recorded, h))
    /\ [][\A h \in RetryHosts : Retries(pm', h) >= Retries(pm, h)]_vars

(***************************************************************************)
(* SpecRegistry: two threads call add_monitoring_target.  The method takes *)
(* no lock: its membership test and its append are two steps.              *)
(***************************************************************************)
RegistryIdle == [pc |-> "idle", host |-> "none"]

\* if host not in self.common_destinations
RegistryTest(c) ==
    /\ callers[c].pc = "idle"
    /\ sched.calls < MaxRegistryCalls
    /\ \E host \in AddHosts :
          callers' = [callers EXCEPT ![c] =
              IF host \notin SeqRange(pm.common_destinations)
              THEN [pc |-> "append", host |-> host]
              ELSE RegistryIdle]
    /\ sched' = [sched EXCEPT !.calls = @ + 1]
    /\ UNCHANGED << pm, recorded, focus, workers, last, mgrVars >>

\* self.common_destinations.append(host)
RegistryAppend(c) ==
    /\ callers[c].pc = "append"
    /\ pm' = [pm EXCEPT !.common_destinations = Append(@, callers[c].host)]
    /\ callers' = [callers EXCEPT ![c] = RegistryIdle]
    /\ UNCHANGED << recorded, focus, workers, sched, last, mgrVars >>

RegistryInit ==
    /\ pm = PMInit
    /\ recorded = RecordedInit
    /\ focus = NoFocus
    /\ workers = WorkersInit
    /\ callers = [c \in CallerIds |-> RegistryIdle]
    /\ sched = SchedInit
    /\ last = NoCall
    /\ MgrVarsInit

RegistryNext == \E c \in CallerIds : RegistryTest(c) \/ RegistryAppend(c)

SpecRegistry == RegistryInit /\ [][RegistryNext]_vars

\* C22: the target registry is safe under concurrent mutation.  No target
\* has more than one entry in common_destinations, and a thread that is
\* between the membership test and the append of add_monitoring_target
\* holds the lock.
Cex_C22_RegistrySafe ==
    /\ \A h \in Hosts : Cardinality(Entries(pm, h)) <= 1
    /\ \A c \in CallerIds : callers[c].pc = "append" => pm.lock = c

(***************************************************************************)
(* SpecTick: a monitor thread runs the sweeps of a tick, a probe at a      *)
(* time, while a client adds targets.  measure_latency and measure_jitter  *)
(* iterate self.common_destinations itself; measure_dns_resolution and     *)
(* measure_connection_times iterate a list they build when they begin.     *)
(* Every probe answers (value 1, no loss).                                 *)
(***************************************************************************)
TickAdds == { "example.com", "10.0.0.5" }

\* the sweep thread outside a sweep
TickIdle ==
    [pc |-> "idle", kind |-> "none", live |-> FALSE, hosts |-> << >>, i |-> 0,
     start |-> << >>, probed |-> << >>]

\* the list the loop of the sweep iterates: the registry object for
\* latency and jitter, the list built at the start otherwise
TickList(t) == IF t.live THEN pm.common_destinations ELSE t.hosts

\* hosts = hosts or self.common_destinations (latency, jitter);
\* hosts = hosts or [h for h in self.common_destinations if not
\* self._is_ip_address(h)] (DNS resolution, connection time)
TickStart ==
    /\ callers["c1"].pc \in { "idle", "done" }
    /\ sched.sweeps < MaxSweeps
    /\ \E kind \in Kinds \ { "packet_loss" } :
          callers' = [callers EXCEPT !["c1"] =
              [pc |-> "sweep", kind |-> kind,
               live |-> kind \in { "latency", "jitter" },
               hosts |-> IF kind \in { "latency", "jitter" } THEN << >>
                         ELSE NonIPHosts(pm.common_destinations),
               i |-> 1, start |-> pm.common_destinations, probed |-> << >>]]
    /\ sched' = [sched EXCEPT !.sweeps = @ + 1]
    /\ UNCHANGED << pm, recorded, focus, workers, last, mgrVars >>

\* the body of the loop for the next host of the list
TickProbe ==
    LET t == callers["c1"]
        host == TickList(t)[t.i]
    IN  /\ t.pc = "sweep"
        /\ t.i <= Len(TickList(t))
        /\ pm' = CASE t.kind = "latency" -> MeasureLatencyHost(pm, host, SchedPing)
                   [] t.kind = "dns_resolution" -> MeasureDnsHost(pm, host, SchedProbe)
                   [] t.kind = "jitter" -> MeasureJitterHost(pm, host, SchedProbe)
                   [] OTHER -> MeasureConnectionHost(pm, host, SchedProbe)
        /\ callers' = [callers EXCEPT !["c1"].i = @ + 1,
                                      !["c1"].probed = Append(@, host)]
        /\ UNCHANGED << recorded, focus, workers, sched, last, mgrVars >>

\* the list is exhausted: the sweep returns
TickEnd ==
    /\ callers["c1"].pc = "sweep"
    /\ callers["c1"].i > Len(TickList(callers["c1"]))
    /\ callers' = [callers EXCEPT !["c1"].pc = "done"]
    /\ UNCHANGED << pm, recorded, focus, workers, sched, last, mgrVars >>

\* a client adds a new target
TickAdd ==
    /\ \E host \in TickAdds :
          /\ host \notin SeqRange(pm.common_destinations)
          /\ pm' = AddMonitoringTarget(pm, host)
    /\ UNCHANGED << recorded, focus, workers, callers, sched, last, mgrVars >>

TickInit ==
    /\ pm = PMInit
    /\ recorded = RecordedInit
    /\ focus = NoFocus
    /\ workers = WorkersInit
    /\ callers = [c \in CallerIds |-> TickIdle]
    /\ sched = SchedInit
    /\ last = NoCall
    /\ MgrVarsInit

TickNext == TickStart \/ TickProbe \/ TickEnd \/ TickAdd

SpecTick == TickInit /\ [][TickNext]_vars

\* the targets of a registry a sweep of the kind applies to
Applicable(kind, registry) ==
    IF kind \in { "dns_resolution", "connection_times" }
    THEN NonIPHosts(registry) ELSE registry

\* C23: registry snapshot per tick.  The targets a sweep probes are targets
\* that were applicable in the registry when the sweep started, and a sweep
\* that has returned has probed exactly those.
Cex_C23_SnapshotPerTick ==
    LET t == callers["c1"]
    IN  /\ t.pc \in { "sweep", "done" } =>
              SeqRange(t.probed) \subseteq SeqRange(Applicable(t.kind, t.start))
        /\ t.pc = "done" => t.probed = Applicable(t.kind, t.start)

(***************************************************************************)
(* SpecGate: the monitor is started, its thread runs its ticks, and a      *)
(* client adds targets with add_performance_target.  Every ping and DNS    *)
(* probe answers; in a tick every connect succeeds or every connect fails. *)
(***************************************************************************)
\* start_monitoring, called by one thread
GateStart ==
    /\ ~pm.monitoring
    /\ sched.spawned = 0
    /\ pm' = [pm EXCEPT !.monitoring = TRUE]
    /\ workers' = [workers EXCEPT ![1] = "loop"]
    /\ sched' = [sched EXCEPT !.spawned = 1]
    /\ UNCHANGED << recorded, focus, callers, last, mgrVars >>

\* add_performance_target(target)
GateAdd ==
    /\ sched.calls < MaxAdds
    /\ \E target \in AddHosts :
          pm' = AddPerformanceTarget(pm, target, SchedPing, SchedProbe)
    /\ sched' = [sched EXCEPT !.calls = @ + 1]
    /\ UNCHANGED << recorded, focus, workers, callers, last, mgrVars >>

\* _monitor_loop, line 65: self.measure_connection_times(), no connect
\* succeeding
GateConnectionFails(w) ==
    /\ workers[w] = "connection"
    /\ pm' = MeasureConnectionTimes(pm, << >>,
                 ResultsFor(pm.common_destinations,
                            [status |-> "nodata", value |-> None]))
    /\ workers' = [workers EXCEPT ![w] = "sleep"]
    /\ UNCHANGED << recorded, focus, callers, sched, last, mgrVars >>

GateNext ==
    \/ GateStart
    \/ GateAdd
    \/ \E w \in WorkerIds :
          \/ WorkerLoop(w) \/ WorkerLatency(w) \/ WorkerDns(w)
          \/ WorkerJitter(w) \/ WorkerConnection(w)
          \/ GateConnectionFails(w) \/ WorkerSleep(w)

SpecGate == SchedInitState /\ [][GateNext]_vars

\* C24: literal-address gating in scheduled ticks.  The DNS-resolution
\* series and the connection-time series of every target that is a literal
\* IP address are empty and its retry counter is 0.
Cex_C24_LiteralSeriesEmpty ==
    \A h \in Hosts :
        IsLiteralAddress(h) =>
            /\ Ring(pm, "dns_resolution", h) = << >>
            /\ Ring(pm, "connection_times", h) = << >>
            /\ Retries(pm, h) = 0

(***************************************************************************)
(* SpecPace: SpecGate with the time a tick's sweeps took.  When the thread *)
(* reaches the sleep of _monitor_loop the four sweeps have taken half the  *)
(* interval or one and a half times the interval.                          *)
(***************************************************************************)
SweepDurations == { Interval \div 2, Interval + Interval \div 2 }

\* the seconds _monitor_loop sleeps after sweeps that took `took` seconds:
\* time.sleep(self.interval)
\* (faulty variant: the rest of the interval, nothing when it is used up)
SleepAfterMutRest(took) == IF took >= Interval THEN 0 ELSE Interval - took
SleepAfter(took) == Interval

\* a sweep raises: the except clause of _monitor_loop prints, the sleep is
\* skipped and the loop tests its flag again
PaceRaises(w) ==
    /\ workers[w] \in { "latency", "dns", "jitter", "connection" }
    /\ last' = [op |-> "raised", took |-> 0, slept |-> 0]
    /\ workers' = [workers EXCEPT ![w] = "loop"]
    /\ UNCHANGED << pm, recorded, focus, callers, sched, mgrVars >>

\* _monitor_loop, line 66: time.sleep(self.interval), and it returns
PaceSleep(w) ==
    /\ workers[w] = "sleep"
    /\ \E took \in SweepDurations :
          last' = [op |-> "sleep", took |-> took, slept |-> SleepAfter(took)]
    /\ workers' = [workers EXCEPT ![w] = "loop"]
    /\ UNCHANGED << pm, recorded, focus, callers, sched, mgrVars >>

PaceNext ==
    \/ GateStart
    \/ GateAdd
    \/ \E w \in WorkerIds :
          \/ WorkerLoop(w) \/ WorkerLatency(w) \/ WorkerDns(w)
          \/ WorkerJitter(w) \/ WorkerConnection(w)
          \/ GateConnectionFails(w) \/ PaceSleep(w) \/ PaceRaises(w)

SpecPace == SchedInitState /\ [][PaceNext]_vars

\* C26: backpressure.  After sweeps that took longer than the interval the
\* thread does not wait before the next tick; after sweeps that took less
\* it waits.
Cex_C26_Backpressure ==
    last.op = "sleep" =>
        /\ last.took > Interval => last.slept = 0
        /\ last.took < Interval => last.slept > 0

\* C26, amended: no backpressure.  After the sweeps of a tick have
\* returned the thread waits the whole configured interval before the next
\* tick, whether the sweeps took longer than the interval or less; only a
\* tick that an exception ended is followed by the next one without a wait.
Thm_C26_FixedWait ==
    /\ [](last.op = "sleep" => last.slept = Interval)
    /\ [][\A w \in WorkerIds :
            (workers[w] # "loop" /\ workers'[w] = "loop") =>
                \/ workers[w] = "unborn"
                \/ workers[w] = "sleep" /\ last'.op = "sleep"
                \/ last'.op = "raised" /\ last'.slept = 0]_vars

\* the sweeps of a tick took longer than the interval and the thread slept
\* the interval
Wit_C26_SleptAfterSlowSweep ==
    /\ last.op = "sleep"
    /\ last.took > Interval
    /\ last.slept = Interval
    /\ \E w \in WorkerIds : workers[w] = "loop"

(***************************************************************************)
(* SpecUnreach: a client calls measure_latency with the three targets; the *)
(* ping of a target exits with status 0, exits with a non-zero status or   *)
(* runs into its timeout.                                                  *)
(***************************************************************************)
UnreachPingResults(i) ==
    { [status |-> "ok", avg |-> SweepValue(i), loss |-> 0],
      [status |-> "nonzero", avg |-> None, loss |-> None],
      [status |-> "timeout", avg |-> None, loss |-> None] }

UnreachPingVectors ==
    { r \in [1..Len(SweepTargets) ->
                UNION { UnreachPingResults(i) : i \in 1..Len(SweepTargets) }] :
          \A i \in 1..Len(SweepTargets) : r[i] \in UnreachPingResults(i) }

UnreachLatency ==
    \E results \in UnreachPingVectors :
        /\ pm' = MeasureLatency(pm, SweepTargets, results)
        /\ SweepCalled("measure_latency", results)
        /\ UNCHANGED recorded

UnreachNext == UnreachLatency

SpecUnreach == SweepInit /\ [][UnreachNext]_vars

\* the ring and the timestamped list of a kind and host are the same in
\* two states of the monitor
SameSeries(p, q, kind, host) ==
    /\ Ring(p, kind, host) = Ring(q, kind, host)
    /\ Hist(p, kind, host) = Hist(q, kind, host)

\* C27: unreachable target.  In a call of measure_latency, a target whose
\* ping exits with a non-zero status gets 100 appended to its packet-loss
\* series and keeps its latency series; a target whose ping times out
\* keeps both series; the call returns and the targets after such a
\* target are measured: one whose ping succeeds has its latency as the
\* newest element of its ring.
Thm_C27_Unreachable ==
    [][last'.op = "measure_latency" =>
          \A i \in 1..Len(last'.hosts) :
              LET h == last'.hosts[i]
                  r == last'.results[i]
              IN  /\ r.status = "nonzero" =>
                        /\ Ring(pm', "packet_loss", h) =
                               DequeAppend(Ring(pm, "packet_loss", h), 100,
                                           Maxlen("packet_loss"))
                        /\ Hist(pm', "packet_loss", h) =
                               Append(Hist(pm, "packet_loss", h),
                                      [value |-> 100])
                        /\ SameSeries(pm', pm, "latency", h)
                  /\ r.status = "timeout" =>
                        /\ SameSeries(pm', pm, "packet_loss", h)
                        /\ SameSeries(pm', pm, "latency", h)
                  /\ r.status = "ok" =>
                        /\ Ring(pm', "latency", h) # << >>
                        /\ Ring(pm', "latency", h)[Len(Ring(pm', "latency", h))]
                               = r.avg]_vars

\* the ping of the first target exited with a non-zero status, that of the
\* second timed out and the third was measured
Wit_C27_UnreachableThenMeasured ==
    /\ last.op = "measure_latency"
    /\ last.results[1].status = "nonzero"
    /\ last.results[2].status = "timeout"
    /\ last.results[3].status = "ok"
    /\ Ring(pm, "packet_loss", last.hosts[1]) = << 100 >>
    /\ Ring(pm, "latency", last.hosts[1]) = << >>
    /\ Ring(pm, "packet_loss", last.hosts[2]) = << >>
    /\ Ring(pm, "latency", last.hosts[3]) # << >>

(***************************************************************************)
(* SpecJitter: a client calls measure_jitter for one target.  The ping     *)
(* command prints one line per echo request: the round-trip time of a      *)
(* reply, or that the request timed out.  Times are multiples of 12, so    *)
(* that the mean of up to four differences is a whole number.              *)
(***************************************************************************)
Platforms == { "windows", "linux" }

JitterHosts == { "8.8.8.8", "example.com" }

JitterTimes == { 12, 36 }

\* the lines the ping of a platform prints for an echo request:
\*   "time="      a reply, "time=12ms" (Windows) or "time=12.0 ms"
\*   "time<"      a reply faster than a millisecond, "time<1ms" (Windows)
\*   "timed out"  no reply
PingLines(platform) ==
    { [text |-> "time=", ms |-> t] : t \in JitterTimes }
        \cup { [text |-> "timed out", ms |-> None] }
        \cup ( IF platform = "windows"
               THEN { [text |-> "time<", ms |-> 1] } ELSE { } )

PingOutputs(platform) ==
    UNION { [1..n -> PingLines(platform)] : n \in 0..MaxReplies }

\* re.search(r'time=(\d+)ms', line), re.search(r'time=([\d.]+) ms', line)
TimeMatch(line) == line.text = "time="

\* ping_times: float(match.group(1)) of the lines that match, in order
RECURSIVE PingTimes(_)
PingTimes(output) ==
    IF output = << >> THEN << >>
    ELSE IF TimeMatch(Head(output))
         THEN << Head(output).ms >> \o PingTimes(Tail(output))
         ELSE PingTimes(Tail(output))

Abs(x) == IF x < 0 THEN -x ELSE x

\* sum([abs(ping_times[i] - ping_times[i-1]) for i in range(1, len)])
RECURSIVE SumDifferences(_)
SumDifferences(times) ==
    IF Len(times) < 2 THEN 0
    ELSE Abs(times[2] - times[1]) + SumDifferences(Tail(times))

\* _measure_jitter: sum(differences) / len(differences) for two or more
\* extracted times, None otherwise and when the ping command failed
JitterOf(times) ==
    IF Len(times) >= 2 THEN SumDifferences(times) \div (Len(times) - 1)
    ELSE None

MeasureJitterValue(res) ==
    IF res.status = "ok" THEN JitterOf(PingTimes(res.output)) ELSE None

JitterResults(platform) ==
    { [status |-> "ok", output |-> o] : o \in PingOutputs(platform) }
        \cup { [status |-> "nonzero", output |-> << >>] }

\* measure_jitter([host]) on a machine of the platform
JitterCall ==
    \E platform \in Platforms, host \in JitterHosts :
        \E res \in JitterResults(platform) :
            /\ sched.sweeps < SweepCalls
            /\ IF last = NoCall THEN TRUE ELSE last.platform = platform
            /\ pm' = MeasureJitter(pm, << host >>,
                         << [status |-> "ok",
                             value |-> MeasureJitterValue(res)] >>)
            /\ sched' = [sched EXCEPT !.sweeps = @ + 1]
            /\ last' = [op |-> "measure_jitter", platform |-> platform,
                        host |-> host, res |-> res]
            /\ UNCHANGED << recorded, focus, workers, callers, mgrVars >>

JitterNext == JitterCall

SpecJitter == SweepInit /\ [][JitterNext]_vars

\* the echo requests of an output that were answered, in order
RECURSIVE Replies(_)
Replies(output) ==
    IF output = << >> THEN << >>
    ELSE IF Head(output).text \in { "time=", "time<" }
         THEN << Head(output) >> \o Replies(Tail(output))
         ELSE Replies(Tail(output))

\* C28 as stated: jitter computation.  After a call of measure_jitter whose
\* ping was answered n times, n >= 2 means that a value was appended to
\* the jitter series of the target and, when every reply reported its
\* time, that n - 1 times the value is the sum of the absolute differences
\* of consecutive round-trip times; n < 2 means that the jitter ring and
\* the timestamped list are unchanged.
Cex_C28_JitterOfReplies ==
    [][last'.op = "measure_jitter" =>
          LET h == last'.host
              replies == Replies(last'.res.output)
              n == Len(replies)
              ring == Ring(pm', "jitter", h)
          IN  IF n >= 2
              THEN /\ Len(Hist(pm', "jitter", h)) =
                          Len(Hist(pm, "jitter", h)) + 1
                   /\ (\A i \in 1..n : replies[i].text = "time=") =>
                          ring[Len(ring)] * (n - 1) =
                              SumDifferences([i \in 1..n |-> replies[i].ms])
              ELSE SameSeries(pm', pm, "jitter", h)]_vars

\* C29 as stated: failed connection probe.  The step that ends a failed
\* _measure_connection_time of a target leaves the retry counter of the
\* target one higher than it was, and the retry counters of the other
\* targets and every connection-time ring and timestamped list as they
\* were; a step that records a successful probe leaves every retry counter
\* as it was.
Cex_C29_FailedProbeFrame ==
    [][/\ \A c \in CallerIds :
             (callers[c].pc = "add" /\ callers'[c].pc = "idle") =>
                 /\ Retries(pm', callers[c].host) =
                        Retries(pm, callers[c].host) + 1
                 /\ \A g \in RetryHosts \ { callers[c].host } :
                        Retries(pm', g) = Retries(pm, g)
                 /\ \A g \in RetryHosts :
                        SameSeries(pm', pm, "connection_times", g)
       /\ recorded'["connection_times"] # recorded["connection_times"] =>
             \A g \in RetryHosts : Retries(pm', g) = Retries(pm, g)]_vars

(***************************************************************************)
(* SpecWriters: the threads that write the series.  The monitor thread     *)
(* runs the four sweeps of one tick, followed here for one target of the   *)
(* registry; another thread calls add_performance_target, whose warm-up    *)
(* calls measure_latency([target]) and, for a target that is no IP         *)
(* address, measure_dns_resolution([target]) in that thread.               *)
(***************************************************************************)
WriterMonitor == "c1"

WriterCaller == "c2"

WriterHosts == << "www.google.com" >>

WriterTargets == { "www.google.com", "8.8.8.8" }

\* the series of the sweeps of a tick, in the order of _monitor_loop
TickKinds == << "latency", "dns_resolution", "jitter", "connection_times" >>

\* _monitor_loop calls the next measure_* method of its tick
WriterTick ==
    /\ callers[WriterMonitor].pc \in { "idle", "returned" }
    /\ sched.sweeps < Len(TickKinds)
    /\ callers' = [callers EXCEPT ![WriterMonitor] =
          AtHosts(WriterMonitor, TickKinds[sched.sweeps + 1], WriterHosts)]
    /\ pm' = EnterProbe(pm, WriterMonitor, WriterHosts)
    /\ sched' = [sched EXCEPT !.sweeps = @ + 1]
    /\ UNCHANGED << recorded, focus, workers, last, mgrVars >>

\* add_performance_target(target): add_monitoring_target(target), then
\* measure_latency([target]) is called
WriterAdd ==
    /\ callers[WriterCaller].pc = "idle"
    /\ \E target \in WriterTargets :
          /\ pm' = EnterProbe(AddMonitoringTarget(pm, target), WriterCaller,
                              << target >>)
          /\ callers' = [callers EXCEPT ![WriterCaller] =
                AtHosts(WriterCaller, "latency", << target >>)]
          /\ last' = [op |-> "add_performance_target", target |-> target,
                      stage |-> "latency"]
    /\ UNCHANGED << recorded, focus, workers, sched, mgrVars >>

\* measure_latency([target]) has returned: measure_dns_resolution([target])
\* is called if not _is_ip_address(target)
WriterAddDns ==
    /\ callers[WriterCaller].pc = "returned"
    /\ last.op = "add_performance_target"
    /\ last.stage = "latency"
    /\ IF IsIPAddress(last.target)
       THEN /\ last' = [last EXCEPT !.stage = "done"]
            /\ UNCHANGED << pm, callers >>
       ELSE /\ last' = [last EXCEPT !.stage = "dns_resolution"]
            /\ callers' = [callers EXCEPT ![WriterCaller] =
                  AtHosts(WriterCaller, "dns_resolution", << last.target >>)]
            /\ pm' = EnterProbe(pm, WriterCaller, << last.target >>)
    /\ UNCHANGED << recorded, focus, workers, sched, mgrVars >>

WriterNext ==
    \/ WriterTick
    \/ WriterAdd
    \/ WriterAddDns
    \/ \E c \in CallerIds :
          LockProbeReturns(c) \/ LockAcquire(c) \/ LockStore(c)

SpecWriters == LockInit /\ [][WriterNext]_vars

\* the series the locked block of a measure_* method of a kind writes
SeriesOf(kind) ==
    IF kind = "latency" THEN { "latency", "packet_loss" } ELSE { kind }

\* C30 as stated: single writer per series.  Every step that changes the
\* ring or the timestamped list of a kind and target is taken by the
\* monitor thread.
Cex_C30_SingleWriter ==
    [][\A k \in Kinds, h \in WriterTargets :
          ~SameSeries(pm', pm, k, h) => pm.lock = WriterMonitor]_vars

\* C30, amended: writers are serialised, not single.  Every step that
\* changes the ring or the timestamped list of a kind and target is taken
\* inside the locked block of a measure_* call for that target, by the
\* thread that holds PerformanceMonitor._lock: the monitor thread in its
\* sweep of that kind, or the thread that called add_performance_target
\* for that target, which writes the latency, the packet-loss and the
\* DNS-resolution series.  A thread inside a locked block holds the lock,
\* so two threads never write at the same time.
Thm_C30_WritersSerialised ==
    /\ [](\A c \in CallerIds : callers[c].pc = "locked" => pm.lock = c)
    /\ [][\A k \in Kinds, h \in WriterTargets :
             ~SameSeries(pm', pm, k, h) =>
                 /\ pm.lock \in CallerIds
                 /\ callers[pm.lock].pc = "locked"
                 /\ h = Head(callers[pm.lock].hosts)
                 /\ k \in SeriesOf(callers[pm.lock].kind)
                 /\ \/ pm.lock = WriterMonitor
                    \/ /\ pm.lock = WriterCaller
                       /\ h = last.target
                       /\ k \in { "latency", "packet_loss",
                                  "dns_resolution" }]_vars

\* the latency series of a target holds two samples, one written by the
\* monitor thread and one by the thread that added the target
Wit_C30_TwoWritersOneSeries ==
    /\ last.op = "add_performance_target"
    /\ last.target = WriterHosts[1]
    /\ last.stage # "latency"
    /\ Len(Hist(pm, "latency", WriterHosts[1])) = 2
    /\ Len(Hist(pm, "dns_resolution", WriterHosts[1])) = 2

\* C31: the aggregator never mutates the metric store.  A step in which a
\* getter of the performance refresh leaves its locked block changes
\* nothing of the monitor but the lock: every ring, timestamped list and
\* retry counter, and the set of keys of each of these dicts, is as it was.
Cex_C31_RefreshReadsOnly ==
    [][\A a \in AggIds :
          (aggs[a].pc = "in" /\ aggs'[a].pc # "in") =>
              [pm' EXCEPT !.lock = "free"] = [pm EXCEPT !.lock = "free"]]_vars

\* a step in which _update_device_metrics ran
DevicesRefreshed ==
    \E a \in AggIds :
        /\ aggs[a].pc = "device_metrics"
        /\ aggs'[a].pc = "traffic_metrics"
        /\ mgr'.last_update["device_metrics"] = "set"
        /\ mgr' # mgr

HistoryHost == "8.8.8.8"

\* the host arguments of a getter: the target, a target without data, None
HistoryArgs == { HistoryHost, "example.com", "" }

\* measure_latency([host]): the probe delivers, or times out
HistoryMeasureLatency ==
    /\ Len(Hist(pm, "latency", HistoryHost)) < HistorySamples
    /\ \E res \in { [status |-> "ok",
                     avg |-> Len(Hist(pm, "latency", HistoryHost)) + 1,
                     loss |-> 0],
                    [status |-> "timeout", avg |-> None, loss |-> None] } :
          /\ pm' = MeasureLatency(pm, << HistoryHost >>, << res >>)
          /\ last' = [op |-> "measure_latency", host |-> HistoryHost,
                      ret |-> res.status]
    /\ UNCHANGED << recorded, focus, workers, callers, sched, mgrVars >>

\* measure_jitter([host])
HistoryMeasureJitter ==
    /\ Len(Hist(pm, "jitter", HistoryHost)) < HistorySamples
    /\ pm' = MeasureJitter(pm, << HistoryHost >>,
                 << [status |-> "ok",
                     value |-> Len(Hist(pm, "jitter", HistoryHost)) + 1] >>)
    /\ last' = [op |-> "measure_jitter", host |-> HistoryHost, ret |-> "ok"]
    /\ UNCHANGED << recorded, focus, workers, callers, sched, mgrVars >>

\* get_latency_metrics(host), get_jitter_metrics(host)
HistoryGet ==
    /\ \E host \in HistoryArgs :
          \/ last' = [op |-> "get_latency_metrics", host |-> host,
                      ret |-> GetLatencyMetrics(pm, host)]
          \/ last' = [op |-> "get_jitter_metrics", host |-> host,
                      ret |-> GetJitterMetrics(pm, host)]
    /\ UNCHANGED << pm, recorded, focus, workers, callers, sched, mgrVars >>

HistoryNext == HistoryMeasureLatency \/ HistoryMeasureJitter \/ HistoryGet

SpecHistory == SweepInit /\ [][HistoryNext]_vars

\* the ring a getter reads
GetterKind(op) == IF op = "get_latency_metrics" THEN "latency" ELSE "jitter"

\* C33: summary of an empty or partially filled series.  What a call of
\* get_latency_metrics or get_jitter_metrics returns has no entry for a
\* target whose ring is empty.  The entry of a target with samples has the
\* newest value of the ring, the least and the greatest value and the mean
\* of the whole ring, and as history the last ten samples of the
\* timestamped list, all of them when there are fewer, in their order.
Thm_C33_SummaryWindow ==
    [][last'.op \in { "get_latency_metrics", "get_jitter_metrics" } =>
          LET kind == GetterKind(last'.op)
              asked == IF last'.host = "" THEN HistoryArgs \ { "" }
                       ELSE { last'.host }
          IN  /\ DOMAIN last'.ret \subseteq asked
              /\ \A h \in asked :
                    LET ring == Ring(pm, kind, h)
                        hist == Hist(pm, kind, h)
                        L == Len(hist)
                    IN  IF ring = << >> THEN h \notin DOMAIN last'.ret
                        ELSE /\ h \in DOMAIN last'.ret
                             /\ LET r == last'.ret[h]
                                    n == Len(r.history)
                                IN  /\ r.current = ring[Len(ring)]
                                    /\ r.min \in SeqRange(ring)
                                    /\ r.max \in SeqRange(ring)
                                    /\ \A x \in SeqRange(ring) :
                                          r.min <= x /\ x <= r.max
                                    /\ r.avg[2] > 0
                                    /\ r.avg[1] * Len(ring) =
                                          SeqSum(ring) * r.avg[2]
                                    /\ n = (IF L < HistoryWindow THEN L
                                            ELSE HistoryWindow)
                                    /\ \A i \in 1..n :
                                          r.history[i] = hist[L - n + i]]_vars

\* the summary of a series of twelve samples: the least value is the first
\* sample, which the history of ten no longer shows
Wit_C33_TwelveSamplesTenShown ==
    /\ last.op = "get_latency_metrics"
    /\ Len(Hist(pm, "latency", HistoryHost)) = 12
    /\ HistoryHost \in DOMAIN last.ret
    /\ last.ret[HistoryHost].min = 1
    /\ Len(last.ret[HistoryHost].history) = 10
    /\ last.ret[HistoryHost].history[1].value = 3
    /\ "example.com" \notin DOMAIN last.ret

(***************************************************************************)
(* SpecCadence: one aggregation thread and a clock in seconds.  The loop   *)
(* reads the time, tests the four categories one after the other, and      *)
(* sleeps: a second after an iteration that ended, five after one that an  *)
(* exception ended.  The updates of the devices and of the performance     *)
(* have no try statement of their own and may raise.  The clock is the     *)
(* field calls of sched.                                                   *)
(***************************************************************************)
\* datetime.datetime.min, in seconds before the start of the clock
DatetimeMin == -1000000

\* self.update_intervals
UpdateIntervals ==
    [ device_metrics |-> 60, traffic_metrics |-> 30,
      performance_metrics |-> 60, bandwidth_metrics |-> 5 ]

\* the aggregation thread of this specification
CadenceThreads == { "a1" }

\* time.sleep(1), and time.sleep(5) in the except clause
LoopSleep == 1

ErrorSleep == 5

\* the updates an exception can leave: _update_traffic_metrics and
\* get_bandwidth_metrics catch theirs
MayRaise == { "device_metrics", "performance_metrics" }

\* (current_time - self.last_update[c]).total_seconds()
\*     >= self.update_intervals[c]
IntervalPassed(m, current_time, c) ==
    current_time - m.last_update[c] >= UpdateIntervals[c]

\* the position after the test of category number i
AfterCategory(i) == IF i < Len(Categories) THEN Categories[i + 1] ELSE "sleep"

\* current_time = datetime.datetime.now(), at the top of the loop; last is
\* the log of the iteration: the categories whose interval has passed, and
\* those whose update was called
CadenceLoop(a) ==
    /\ aggs[a].pc = "loop"
    /\ aggs' = [aggs EXCEPT ![a] = [pc |-> Categories[1],
                                    current_time |-> sched.calls]]
    /\ last' = [op |-> "iteration",
                passed |-> { c \in SeqRange(Categories) :
                                IntervalPassed(mgr, sched.calls, c) },
                called |-> {}]
    /\ UNCHANGED << pm, recorded, focus, workers, callers, sched, mgr, collab,
                    heap, readers, published >>

\* the test of a category: when its interval has passed its update is
\* called and, when that returned, its last_update becomes current_time
CadenceTest(a) ==
    /\ \E i \in 1..Len(Categories) :
          LET c == Categories[i]
          IN  /\ aggs[a].pc = c
              /\ IF IntervalPassed(mgr, aggs[a].current_time, c)
                 THEN /\ last' = [last EXCEPT !.called = @ \cup { c }]
                      /\ \/ /\ mgr' = [mgr EXCEPT !.last_update[c] =
                                          aggs[a].current_time]
                            /\ aggs' = [aggs EXCEPT ![a].pc = AfterCategory(i)]
                         \/ /\ c \in MayRaise
                            /\ aggs' = [aggs EXCEPT ![a].pc = "error_sleep"]
                            /\ UNCHANGED mgr
                 ELSE /\ aggs' = [aggs EXCEPT ![a].pc = AfterCategory(i)]
                      /\ UNCHANGED << mgr, last >>
    /\ UNCHANGED << pm, recorded, focus, workers, callers, sched, collab,
                    heap, readers, published >>

\* time.sleep(1) at the end of the iteration, time.sleep(5) after an
\* exception
CadenceSleep(a) ==
    /\ aggs[a].pc \in { "sleep", "error_sleep" }
    /\ LET t == sched.calls
                  + (IF aggs[a].pc = "sleep" THEN LoopSleep ELSE ErrorSleep)
       IN  /\ t <= MaxClock
           /\ sched' = [sched EXCEPT !.calls = t]
    /\ aggs' = [aggs EXCEPT ![a].pc = "loop"]
    /\ UNCHANGED << pm, recorded, focus, workers, callers, last, mgr, collab,
                    heap, readers, published >>

CadenceInit ==
    /\ pm = PMInit
    /\ recorded = RecordedInit
    /\ focus = NoFocus
    /\ workers = WorkersInit
    /\ callers = CallersInit
    /\ sched = SchedInit
    /\ last = NoCall
    /\ mgr = [MgrInit EXCEPT !.last_update =
                 [c \in SeqRange(Categories) |-> DatetimeMin]]
    /\ collab = CollabInit
    /\ heap = << >>
    /\ aggs = [a \in CadenceThreads |-> [pc |-> "loop", current_time |-> 0]]
    /\ readers = [r \in ReaderIds |-> [called |-> FALSE, ref |-> 0, got |-> EmptyDict]]
    /\ published = {}

CadenceNext ==
    \E a \in CadenceThreads :
        CadenceLoop(a) \/ CadenceTest(a) \/ CadenceSleep(a)

SpecCadence == CadenceInit /\ [][CadenceNext]_vars

\* C34: independent aggregator cadences.  At the end of an iteration of the
\* aggregation loop the categories whose update was called in it are those
\* whose own interval had passed since their last refresh, all four in the
\* first iteration; and the last_update of a category changes only in the
\* step that called its update.
Cex_C34_IndependentCadences ==
    /\ [](\A a \in CadenceThreads :
            aggs[a].pc \in { "sleep", "error_sleep" } =>
                /\ last.called = last.passed
                /\ sched.calls = 0 => last.called = SeqRange(Categories))
    /\ [][\A c \in SeqRange(Categories) :
            mgr'.last_update[c] # mgr.last_update[c] =>
                c \in last'.called \ last.called]_vars

(***************************************************************************)
(* SpecNesting: the three locks and every thread that takes one.  An       *)
(* operation is the sequence of its with statements: "acquire" is the      *)
(* entry of a with block, "release" its exit.  The monitor thread, the     *)
(* scanner thread, the aggregation thread and two consumers run their      *)
(* operations again and again.                                             *)
(***************************************************************************)
Acquire(lock) == << "acquire", lock >>

Release(lock) == << "release", lock >>

\* a getter of PerformanceMonitor, a locked block of a measure_* method
Section(lock) == << Acquire(lock), Release(lock) >>

\* the with statements an operation executes, in order
\* (faulty variant: scan_network reads the published metrics with
\* get_metrics while it holds the scanner lock)
LockProgramMutScanReads(op) ==
    CASE op = "scan_network" ->
           << Acquire("scanner"), Acquire("manager"), Release("manager"),
              Release("scanner") >>
      [] op = "_update_device_metrics" ->
           << Acquire("manager") >> \o Section("scanner")
               \o Section("scanner") \o << Release("manager") >>
      [] OTHER -> Section("manager")

LockProgram(op) ==
    CASE op = "measure" -> Section("monitor")
      [] op = "scan_network" -> Section("scanner")
      [] op = "_update_device_metrics" ->
           \* get_device_metrics, then update_device_bandwidth_metrics
           << Acquire("manager") >> \o Section("scanner")
               \o Section("scanner") \o << Release("manager") >>
      [] op = "_update_traffic_metrics" -> Section("manager")
      [] op = "_update_performance_metrics" ->
           \* the four getters and the DNS getter of a host
           << Acquire("manager") >> \o Section("monitor")
               \o Section("monitor") \o Section("monitor")
               \o Section("monitor") \o Section("monitor")
               \o << Release("manager") >>
      [] op = "_update_bandwidth_metrics" -> Section("manager")
      [] op = "get_metrics" -> Section("manager")
      [] op = "get_device_details" -> Section("manager")
      [] op = "get_comprehensive_metrics" ->
           Section("monitor") \o Section("monitor") \o Section("monitor")
               \o Section("monitor") \o Section("monitor")
      [] op = "add_performance_target" ->
           \* measure_latency([target]), measure_dns_resolution([target])
           Section("monitor") \o Section("monitor")

LockThreads == { "monitor", "scanner", "aggregator", "consumer1", "consumer2" }

\* the operations a thread runs
OperationsOf(t) ==
    CASE t = "monitor" -> { "measure" }
      [] t = "scanner" -> { "scan_network" }
      [] t = "aggregator" ->
           { "_update_device_metrics", "_update_traffic_metrics",
             "_update_performance_metrics", "_update_bandwidth_metrics" }
      [] OTHER ->
           { "get_metrics", "get_device_details", "get_comprehensive_metrics",
             "add_performance_target" }

LockNames == { "manager", "monitor", "scanner" }

\* the thread that holds a lock, "free" when none does
Owner(lock) ==
    CASE lock = "manager" -> mgr.lock
      [] lock = "monitor" -> pm.lock
      [] lock = "scanner" -> collab.lock

\* the thread begins an operation
NestingCall(t) ==
    /\ callers[t].op = "none"
    /\ \E op \in OperationsOf(t) :
          callers' = [callers EXCEPT ![t] = [op |-> op, at |-> 1]]
    /\ UNCHANGED << pm, recorded, focus, workers, sched, last, mgrVars >>

\* the statement the thread is at
Statement(t) == LockProgram(callers[t].op)[callers[t].at]

\* the thread after its statement: at the next one, or returned
Advanced(t) ==
    IF callers[t].at < Len(LockProgram(callers[t].op))
    THEN [callers EXCEPT ![t].at = @ + 1]
    ELSE [callers EXCEPT ![t] = [op |-> "none", at |-> 0]]

\* threading.Lock.acquire: the thread enters the with block when the lock
\* is free, whoever holds it otherwise
NestingAcquire(t) ==
    /\ callers[t].op # "none"
    /\ Statement(t)[1] = "acquire"
    /\ Owner(Statement(t)[2]) = "free"
    /\ pm' = IF Statement(t)[2] = "monitor" THEN [pm EXCEPT !.lock = t] ELSE pm
    /\ mgr' = IF Statement(t)[2] = "manager" THEN [mgr EXCEPT !.lock = t] ELSE mgr
    /\ collab' = IF Statement(t)[2] = "scanner"
                 THEN [collab EXCEPT !.lock = t] ELSE collab
    /\ callers' = Advanced(t)
    /\ last' = [op |-> "acquire", thread |-> t, lock |-> Statement(t)[2],
                held |-> { l \in LockNames : Owner(l) = t }]
    /\ UNCHANGED << recorded, focus, workers, sched, heap, aggs, readers,
                    published >>

\* the thread leaves the with block
NestingRelease(t) ==
    /\ callers[t].op # "none"
    /\ Statement(t)[1] = "release"
    /\ pm' = IF Statement(t)[2] = "monitor" THEN [pm EXCEPT !.lock = "free"] ELSE pm
    /\ mgr' = IF Statement(t)[2] = "manager"
              THEN [mgr EXCEPT !.lock = "free"] ELSE mgr
    /\ collab' = IF Statement(t)[2] = "scanner"
                 THEN [collab EXCEPT !.lock = "free"] ELSE collab
    /\ callers' = Advanced(t)
    /\ UNCHANGED << recorded, focus, workers, sched, last, heap, aggs,
                    readers, published >>

NestingInit ==
    /\ pm = PMInit
    /\ recorded = RecordedInit
    /\ focus = NoFocus
    /\ workers = WorkersInit
    /\ callers = [t \in LockThreads |-> [op |-> "none", at |-> 0]]
    /\ sched = SchedInit
    /\ last = NoCall
    /\ MgrVarsInit

NestingNext ==
    \E t \in LockThreads :
        NestingCall(t) \/ NestingAcquire(t) \/ NestingRelease(t)

SpecNesting == NestingInit /\ [][NestingNext]_vars

\* the thread is at the entry of a with block whose lock is held
Blocked(t) ==
    /\ callers[t].op # "none"
    /\ Statement(t)[1] = "acquire"
    /\ Owner(Statement(t)[2]) # "free"

\* the threads t waits for, directly or through other blocked threads
RECURSIVE WaitChain(_, _)
WaitChain(t, n) ==
    IF n = 0 \/ ~Blocked(t) THEN {}
    ELSE LET o == Owner(Statement(t)[2])
         IN  { o } \cup WaitChain(o, n - 1)

\* C35: deadlock freedom.  No thread waits, directly or through other
\* waiting threads, for a lock it holds itself or for a thread that waits
\* for it; a thread that enters a with block while it holds a lock holds
\* the manager lock only and enters the block of the monitor lock or of the
\* scanner lock; and some thread can always take a step.
Thm_C35_NoLockCycle ==
    /\ \A t \in LockThreads : t \notin WaitChain(t, Cardinality(LockThreads))
    /\ \E t \in LockThreads : ~Blocked(t)
    /\ last.op = "acquire" =>
          \/ last.held = {}
          \/ last.held = { "manager" } /\ last.lock \in { "monitor", "scanner" }

\* the aggregation thread holds the manager lock and waits for the monitor
\* lock, which the monitor thread holds, while a consumer waits for the
\* manager lock and the scanner thread holds the scanner lock
Wit_C35_NestedWaiting ==
    /\ mgr.lock = "aggregator"
    /\ pm.lock = "monitor"
    /\ collab.lock = "scanner"
    /\ Blocked("aggregator")
    /\ Blocked("consumer1")
    /\ Owner(Statement("consumer1")[2]) = "aggregator"
    /\ callers["consumer2"].op = "add_performance_target"
    /\ Blocked("consumer2")

(***************************************************************************)
(* The critical sections of the measuring methods, one append per step.   *)
(* measure_latency and measure_jitter append to the ring and to the       *)
(* timestamped list of a series inside one "with self._lock" block; the   *)
(* block of measure_latency holds the appends of the latency and of the   *)
(* packet-loss sample of one ping.  callers[c] is the position of thread  *)
(* c: outside the block, or inside with the appends still to do.          *)
(***************************************************************************)
SectionHost == "8.8.8.8"

SectionOps == {"measure_latency", "measure_jitter"}

\* what the probe of a measurement returned; the values are numbered so
\* that the samples of a series differ
\* (a host answers no ping until it answers its first one; the block of
\* measure_dns_resolution has the shape of the block of measure_jitter)
SectionResults(op) ==
    IF op = "measure_latency"
    THEN { [status |-> "ok", avg |-> Label("latency", SectionHost),
            loss |-> Label("packet_loss", SectionHost)] }
         \cup (IF Delivered(recorded, "latency", SectionHost) = << >>
               THEN { [status |-> "nonzero"] } ELSE {})
    ELSE { [status |-> "ok", value |-> v] :
               v \in {None, Label("jitter", SectionHost)} }

\* self.<kind>[host].append(v) followed by
\* self.historical_metrics[key][host].append({...}), when v is not None
SampleWrites(kind, v) ==
    IF v = None THEN << >> ELSE << << "ring", kind, v >>, << "list", kind, v >> >>

\* (faulty variant: the sample goes to the ring only)
SectionWritesMutRingOnly(op, res) ==
    IF op = "measure_latency"
    THEN << << "ring", "latency", PingHost(res)[1] >> >>
    ELSE << << "ring", "jitter", res.value >> >>

\* the statements of the locked block of a measuring method, in order
SectionWrites(op, res) ==
    IF op = "measure_latency"
    THEN SampleWrites("latency", PingHost(res)[1])
             \o SampleWrites("packet_loss", PingHost(res)[2])
    ELSE SampleWrites("jitter", res.value)

\* one append statement of the block
ApplyWrite(p, w, host) ==
    IF w[1] = "ring"
    THEN [ p EXCEPT ![w[2]] = DictSet(@, host,
               DequeAppend(Ring(p, w[2], host), w[3], Maxlen(w[2]))) ]
    ELSE [ p EXCEPT !.historical_metrics[HistKey(w[2])] = DictSet(@, host,
               Append(Hist(p, w[2], host), [value |-> w[3]])) ]

SectionRecorded(rec, op, res) ==
    IF op = "measure_latency"
    THEN PingRecorded(rec, SectionHost, res)
    ELSE ProbeRecorded(rec, "jitter", SectionHost, res)

SectionIdle == [pc |-> "idle", todo |-> << >>]

\* the probe has returned and "with self._lock" is entered
SectionEnter(c) ==
    /\ callers[c].pc = "idle"
    /\ pm.lock = "free"
    /\ Len(Delivered(recorded, "packet_loss", SectionHost))
           + Len(Delivered(recorded, "jitter", SectionHost)) < SectionSamples
    /\ \E op \in SectionOps : \E res \in SectionResults(op) :
          /\ callers' = [callers EXCEPT
                 ![c] = [pc |-> "locked", todo |-> SectionWrites(op, res)]]
          /\ recorded' = SectionRecorded(recorded, op, res)
          /\ last' = [op |-> op, res |-> res]
    /\ pm' = [pm EXCEPT !.lock = c]
    /\ UNCHANGED << focus, workers, sched, mgrVars >>

\* the next append of the block
SectionWrite(c) ==
    /\ callers[c].pc = "locked"
    /\ callers[c].todo # << >>
    /\ pm' = ApplyWrite(pm, Head(callers[c].todo), SectionHost)
    /\ callers' = [callers EXCEPT ![c].todo = Tail(@)]
    /\ UNCHANGED << recorded, focus, workers, sched, last, mgrVars >>

\* the end of the with block
SectionLeave(c) ==
    /\ callers[c].pc = "locked"
    /\ callers[c].todo = << >>
    /\ pm' = [pm EXCEPT !.lock = "free"]
    /\ callers' = [callers EXCEPT ![c] = SectionIdle]
    /\ UNCHANGED << recorded, focus, workers, sched, last, mgrVars >>

SectionInit ==
    /\ pm = PMInit
    /\ recorded = RecordedInit
    /\ focus = NoFocus
    /\ workers = WorkersInit
    /\ callers = [c \in CallerIds |-> SectionIdle]
    /\ sched = SchedInit
    /\ last = NoCall
    /\ MgrVarsInit

SectionNext ==
    \E c \in CallerIds : SectionEnter(c) \/ SectionWrite(c) \/ SectionLeave(c)

SpecSection == SectionInit /\ [][SectionNext]_vars

\* C36: whenever the PerformanceMonitor lock is free, the ring of every
\* series holds the values of the last min(capacity, L) entries of its
\* timestamped list of length L, and the list holds every value a probe
\* delivered: in particular both samples of every ping that produced a
\* latency and a packet loss are there, never one without the other.
Thm_C36_RingMatchesList ==
    pm.lock = "free" =>
        \A kind \in Kinds :
            /\ Ring(pm, kind, SectionHost)
                   = LastN(HistValues(pm, kind, SectionHost), Maxlen(kind))
            /\ HistValues(pm, kind, SectionHost)
                   = Delivered(recorded, kind, SectionHost)

\* the packet-loss ring is full and has dropped its oldest sample, the last
\* ping delivered both of its samples, and the lock is free again
Wit_C36_FullRingAfterPing ==
    /\ pm.lock = "free"
    /\ last.op = "measure_latency"
    /\ last.res.status = "ok"
    /\ Len(Hist(pm, "packet_loss", SectionHost)) > PacketLossMaxlen
    /\ Len(Ring(pm, "packet_loss", SectionHost)) = PacketLossMaxlen
    /\ Len(Hist(pm, "latency", SectionHost)) > 0

(***************************************************************************)
(* The manager lock on the failure path.  Every update function of the    *)
(* aggregation loop calls its collaborators inside "with self._lock"; the *)
(* steps are the entry of the block, the collaborator calls, the exit of  *)
(* the block and the except clause of the loop.  aggs[a] is the position  *)
(* of the aggregation thread, callers[c] the position of a consumer in    *)
(* get_metrics or get_device_details.                                     *)
(***************************************************************************)
ReleaseThreads == {"a1"}

ReleaseCategories ==
    << "device_metrics", "traffic_metrics", "performance_metrics",
       "bandwidth_metrics" >>

ConsumerOps == {"get_metrics", "get_device_details"}

\* _update_traffic_metrics has a try statement inside its with block; in
\* the other update functions an exception leaves the with block
Propagates(category) == category # "traffic_metrics"

\* (faulty variant: an exception leaves the block with the lock held)
WithExitMutHeldOnRaise(owner, raising) == IF raising THEN owner ELSE "free"

\* the end of a with self._lock block, reached by the last statement or by
\* an exception: the lock is released
WithExit(owner, raising) == "free"

\* the thread is past the test of category i, or past its update
AfterTest(a, i) ==
    IF i < Len(ReleaseCategories)
    THEN [aggs EXCEPT ![a] = [pc |-> "test", category |-> i + 1, raising |-> FALSE]]
    ELSE [aggs EXCEPT ![a] = [pc |-> "sleep", category |-> i, raising |-> FALSE]]

\* the test of the interval of a category
ReleaseTest(a) ==
    /\ aggs[a].pc = "test"
    /\ \E due \in BOOLEAN :
          aggs' = IF due THEN [aggs EXCEPT ![a].pc = "with_lock"]
                  ELSE AfterTest(a, aggs[a].category)
    /\ UNCHANGED << pmVars, mgr, collab, heap, readers, published >>

\* with self._lock of the update function
ReleaseAcquire(a) ==
    /\ aggs[a].pc = "with_lock"
    /\ mgr.lock = "free"
    /\ mgr' = [mgr EXCEPT !.lock = a]
    /\ aggs' = [aggs EXCEPT ![a].pc = "calls"]
    /\ UNCHANGED << pmVars, collab, heap, readers, published >>

\* the collaborator calls of the block return, or one of them raises
ReleaseCalls(a) ==
    /\ aggs[a].pc = "calls"
    /\ \E raises \in BOOLEAN :
          aggs' = [aggs EXCEPT
                      ![a].pc = "exit",
                      ![a].raising =
                          raises /\ Propagates(ReleaseCategories[aggs[a].category])]
    /\ UNCHANGED << pmVars, mgr, collab, heap, readers, published >>

\* the with block is left; an exception goes on to the except clause of
\* _aggregation_loop
ReleaseExit(a) ==
    /\ aggs[a].pc = "exit"
    /\ mgr' = [mgr EXCEPT !.lock = WithExit(a, aggs[a].raising)]
    /\ aggs' = IF aggs[a].raising
               THEN [aggs EXCEPT ![a].pc = "except"]
               ELSE AfterTest(a, aggs[a].category)
    /\ UNCHANGED << pmVars, collab, heap, readers, published >>

\* time.sleep(1) at the end of an iteration
ReleaseSleep(a) ==
    /\ aggs[a].pc = "sleep"
    /\ aggs' = [aggs EXCEPT ![a] = [pc |-> "test", category |-> 1, raising |-> FALSE]]
    /\ UNCHANGED << pmVars, mgr, collab, heap, readers, published >>

\* the except clause: print, time.sleep(5)
ReleaseErrorSleep(a) ==
    /\ aggs[a].pc = "except"
    /\ aggs' = [aggs EXCEPT ![a] = [pc |-> "test", category |-> 1, raising |-> FALSE]]
    /\ UNCHANGED << pmVars, mgr, collab, heap, readers, published >>

\* a consumer calls get_metrics or get_device_details
ConsumerCall(c) ==
    /\ callers[c].pc = "idle"
    /\ \E op \in ConsumerOps :
          callers' = [callers EXCEPT ![c] = [pc |-> "with_lock", op |-> op]]
    /\ UNCHANGED << pm, recorded, focus, workers, sched, last, mgrVars >>

\* with self._lock of the call
ConsumerAcquire(c) ==
    /\ callers[c].pc = "with_lock"
    /\ mgr.lock = "free"
    /\ mgr' = [mgr EXCEPT !.lock = c]
    /\ callers' = [callers EXCEPT ![c].pc = "locked"]
    /\ UNCHANGED << pm, recorded, focus, workers, sched, last, collab, heap,
                    aggs, readers, published >>

\* the block of the call ends and the call returns
ConsumerReturn(c) ==
    /\ callers[c].pc = "locked"
    /\ mgr' = [mgr EXCEPT !.lock = WithExit(c, FALSE)]
    /\ callers' = [callers EXCEPT ![c].pc = "idle"]
    /\ UNCHANGED << pm, recorded, focus, workers, sched, last, collab, heap,
                    aggs, readers, published >>

ReleaseInit ==
    /\ pm = PMInit
    /\ recorded = RecordedInit
    /\ focus = NoFocus
    /\ workers = WorkersInit
    /\ callers = [c \in CallerIds |-> [pc |-> "idle", op |-> "none"]]
    /\ sched = SchedInit
    /\ last = NoCall
    /\ mgr = MgrInit
    /\ collab = CollabInit
    /\ heap = << >>
    /\ aggs = [a \in ReleaseThreads |->
                  [pc |-> "test", category |-> 1, raising |-> FALSE]]
    /\ readers = [r \in ReaderIds |-> [called |-> FALSE, ref |-> 0, got |-> EmptyDict]]
    /\ published = {}

ReleaseNext ==
    \/ \E a \in ReleaseThreads :
          \/ ReleaseTest(a) \/ ReleaseAcquire(a) \/ ReleaseCalls(a)
          \/ ReleaseExit(a) \/ ReleaseSleep(a) \/ ReleaseErrorSleep(a)
    \/ \E c \in CallerIds :
          ConsumerCall(c) \/ ConsumerAcquire(c) \/ ConsumerReturn(c)

SpecRelease == ReleaseInit /\ [][ReleaseNext]_vars

\* The aggregation thread and the consumers run; the aggregation thread
\* leaves the lock free while it sleeps (one second, five after an error),
\* and a consumer that waits for the lock gets it when it is released.
SpecReleaseFair ==
    /\ SpecRelease
    /\ \A a \in ReleaseThreads :
          /\ WF_vars(ReleaseTest(a)) /\ WF_vars(ReleaseAcquire(a))
          /\ WF_vars(ReleaseCalls(a)) /\ WF_vars(ReleaseExit(a))
          /\ WF_vars(ReleaseSleep(a)) /\ WF_vars(ReleaseErrorSleep(a))
    /\ \A c \in CallerIds :
          SF_vars(ConsumerAcquire(c)) /\ WF_vars(ConsumerReturn(c))

BundleHost == "example.com"

BundleReader == {"c1"}

BundleMeasures == {"measure_latency", "measure_dns_resolution"}

GetterOrder == << "latency", "packet_loss", "jitter", "connection_time" >>

\* the get_*_metrics call that gives a part of the bundle
GetterResult(part, p, host) ==
    CASE part = "latency" -> GetLatencyMetrics(p, host)
      [] part = "packet_loss" -> GetPacketLossMetrics(p, host)
      [] part = "jitter" -> GetJitterMetrics(p, host)
      [] part = "connection_time" -> GetConnectionTimeMetrics(p, host)

BundleIdle == [pc |-> "idle", next |-> 1, parts |-> EmptyDict, results |-> EmptyDict]

InCall(c) == callers[c].pc \notin {"idle", "returned"}

\* the store states the calls in progress have been through
StatesSeen(p) ==
    IF \E c \in BundleReader : InCall(c) THEN published \cup { p } ELSE published

\* the collection worker measures the target and stores what it measured,
\* in one locked block; the n-th measurement of the run gives 10 * n
BundleStore ==
    /\ sched.calls < MaxBundleStores
    /\ \E op \in BundleMeasures :
          LET v == 10 * (sched.calls + 1)
          IN  pm' = IF op = "measure_latency"
                    THEN MeasureLatencyHost(pm, BundleHost,
                             [status |-> "ok", avg |-> v, loss |-> 0])
                    ELSE MeasureDnsHost(pm, BundleHost,
                             [status |-> "ok", value |-> v])
    /\ sched' = [sched EXCEPT !.calls = @ + 1]
    /\ published' = StatesSeen(pm')
    /\ UNCHANGED << recorded, focus, workers, callers, last, mgr, collab, heap,
                    aggs, readers >>

\* get_comprehensive_metrics() is called
BundleCall(c) ==
    /\ ~InCall(c)
    /\ callers' = [callers EXCEPT ![c] = [BundleIdle EXCEPT !.pc = "getter"]]
    /\ published' = { pm }
    /\ UNCHANGED << pm, recorded, focus, workers, sched, last, mgr, collab,
                    heap, aggs, readers >>

\* the next of the four get_*_metrics calls
BundleGetter(c) ==
    /\ callers[c].pc = "getter"
    /\ LET part == GetterOrder[callers[c].next]
       IN  /\ callers' = [callers EXCEPT
                  ![c].parts = DictSet(@, part, GetterResult(part, pm, "")),
                  ![c].next = IF @ < Len(GetterOrder) THEN @ + 1 ELSE @,
                  ![c].pc = IF callers[c].next < Len(GetterOrder)
                            THEN "getter" ELSE "combine"]
           /\ pm' = IF part = "connection_time"
                    THEN AfterGetConnectionTimeMetrics(pm, "") ELSE pm
    /\ published' = StatesSeen(pm')
    /\ UNCHANGED << recorded, focus, workers, sched, last, mgr, collab, heap,
                    aggs, readers >>

\* results[h] = {...} for the hosts of the four parts; connection_retries
\* is read without the lock
BundleCombine(c) ==
    /\ callers[c].pc = "combine"
    /\ LET parts == callers[c].parts
           hosts == UNION { DOMAIN parts[part] : part \in DOMAIN parts }
       IN  callers' = [callers EXCEPT
              ![c].results =
                  [ h \in hosts |->
                      [ latency |-> DictGet(parts["latency"], h, EmptyDict),
                        packet_loss |-> DictGet(parts["packet_loss"], h, EmptyDict),
                        jitter |-> DictGet(parts["jitter"], h, EmptyDict),
                        connection_time |->
                            DictGet(parts["connection_time"], h, EmptyDict),
                        retry_attempts |-> Retries(pm, h) ] ],
              ![c].pc = "dns"]
    /\ UNCHANGED << pm, recorded, focus, workers, sched, last, mgrVars >>

\* get_dns_resolution_metrics(h) for the host that is no IP address, and
\* return results
BundleReturn(c) ==
    /\ callers[c].pc = "dns"
    /\ LET results ==
              [ h \in DOMAIN callers[c].results |->
                  LET dns_metrics == GetDnsResolutionMetrics(pm, h)
                  IN  callers[c].results[h]
                      @@ ( IF ~IsIPAddress(h) /\ dns_metrics # EmptyDict
                           THEN [dns_resolution |-> DictGet(dns_metrics, h, EmptyDict)]
                           ELSE EmptyDict ) ]
       IN  /\ callers' = [callers EXCEPT ![c].results = results,
                                         ![c].pc = "returned"]
           /\ last' = [op |-> "get_comprehensive_metrics", bundle |-> results]
    /\ UNCHANGED << pm, recorded, focus, workers, sched, mgrVars >>

BundleInit ==
    /\ pm = PMInit
    /\ recorded = RecordedInit
    /\ focus = NoFocus
    /\ workers = WorkersInit
    /\ callers = [c \in BundleReader |-> BundleIdle]
    /\ sched = SchedInit
    /\ last = NoCall
    /\ MgrVarsInit

BundleNext ==
    \/ BundleStore
    \/ \E c \in BundleReader :
          BundleCall(c) \/ BundleGetter(c) \/ BundleCombine(c) \/ BundleReturn(c)

SpecBundle == BundleInit /\ [][BundleNext]_vars

\* C38: the bundle a get_comprehensive_metrics call returned is the bundle
\* of one of the states the store was in during the call.
Cex_C38_BundleIsSnapshot ==
    \A c \in BundleReader :
        callers[c].pc = "returned" =>
            \E p \in published :
                GetComprehensiveMetrics(p, "") = callers[c].results

====
